---- MODULE Spec2Model ----
(***************************************************************************)
(* Session workspace manager of the web IDE (src/main_simple.py and        *)
(* src/main.py): path sandboxing, archive import, git synchronisation and  *)
(* the per-session realtime registry.                                      *)
(*                                                                         *)
(* Python strings are modelled as sequences of one-character strings, so   *)
(* that startswith, "in", split, replace and normpath are computed as the  *)
(* code computes them.  A fixed literal of the code that no operation      *)
(* looks into (a message prefix) may appear as one multi-character         *)
(* element of such a sequence.                                             *)
(***************************************************************************)
EXTENDS Integers, Sequences, FiniteSets, TLC

VARIABLES
    files,               \* the disk: canonical absolute path -> content of the regular file there
    dirs,                \* the disk: canonical absolute paths of the directories
    repos,               \* canonical workspace path -> state of the git repository in it
    websocket_sessions,  \* session_id -> sequence of registered connections
    last,                \* the last completed call: its inputs, its outcome, the paths it touched
    nops,                \* number of calls made so far
    pending,             \* a client path waiting to be resolved (path-resolution runs), or NoPath
    git_log,             \* history: what each git_commit call so far answered and what it did
    calls,               \* the handler coroutines started on the event loop, each with its position
    running,             \* index in calls of the coroutine that holds the event loop, 0 when it is free
    ws_handlers          \* socket -> its websocket_terminal coroutine and the state of its link

loop == <<calls, running, ws_handlers>>
vars == <<files, dirs, repos, websocket_sessions, last, nops, pending, git_log, loop>>

(***************************************************************************)
(* Bounds                                                                  *)
(***************************************************************************)
MaxOps == 2        \* calls in one run of the file, archive and identity machines
MaxPathLen == 4    \* longest enumerated client path in the path-resolution runs
MaxGitOps == 4     \* calls in one run of the git machine
MaxCalls == 2      \* git_commit calls started in one run of the event loop

(***************************************************************************)
(* str helpers                                                             *)
(***************************************************************************)
StartsWith(s, p) == Len(p) <= Len(s) /\ SubSeq(s, 1, Len(p)) = p

Contains(s, sub) ==
    \E i \in 1..(Len(s) - Len(sub) + 1) : SubSeq(s, i, i + Len(sub) - 1) = sub

RECURSIVE SplitFrom(_, _, _)
SplitFrom(s, i, cur) ==
    IF i > Len(s) THEN <<cur>>
    ELSE IF s[i] = "/" THEN <<cur>> \o SplitFrom(s, i + 1, <<>>)
    ELSE SplitFrom(s, i + 1, Append(cur, s[i]))

\* path.split('/')
split(s) == SplitFrom(s, 1, <<>>)

RECURSIVE JoinFrom(_, _)
JoinFrom(comps, i) ==
    IF i > Len(comps) THEN <<>>
    ELSE IF i = Len(comps) THEN comps[i]
    ELSE comps[i] \o <<"/">> \o JoinFrom(comps, i + 1)

\* '/'.join(comps)
slash_join(comps) == JoinFrom(comps, 1)

RECURSIVE ReplaceFrom(_, _, _, _)
ReplaceFrom(s, i, old, new) ==
    IF i > Len(s) THEN <<>>
    ELSE IF i + Len(old) - 1 <= Len(s) /\ SubSeq(s, i, i + Len(old) - 1) = old
         THEN new \o ReplaceFrom(s, i + Len(old), old, new)
    ELSE <<s[i]>> \o ReplaceFrom(s, i + 1, old, new)

\* s.replace(old, new): every occurrence, left to right (old is never empty here)
replace(s, old, new) == ReplaceFrom(s, 1, old, new)

DotDot == <<".", ".">>

\* Op applied to the value of x, which is computed once
Bind(x, Op(_)) == CHOOSE r \in {Op(v) : v \in {x}} : TRUE

(***************************************************************************)
(* os.path (posixpath)                                                     *)
(***************************************************************************)
RECURSIVE NormComps(_, _, _, _)
NormComps(comps, i, initial_slashes, new_comps) ==
    IF i > Len(comps) THEN new_comps
    ELSE LET comp == comps[i]
             n == Len(new_comps)
         IN  IF comp = <<>> \/ comp = <<".">>
             THEN NormComps(comps, i + 1, initial_slashes, new_comps)
             ELSE IF \/ comp # DotDot
                     \/ (initial_slashes = 0 /\ n = 0)
                     \/ (n > 0 /\ new_comps[n] = DotDot)
             THEN NormComps(comps, i + 1, initial_slashes, Append(new_comps, comp))
             ELSE IF n > 0
             THEN NormComps(comps, i + 1, initial_slashes, SubSeq(new_comps, 1, n - 1))
             ELSE NormComps(comps, i + 1, initial_slashes, new_comps)

\* os.path.normpath
normpath(path) ==
    IF path = <<>> THEN <<".">>
    ELSE LET initial_slashes ==
                 IF ~StartsWith(path, <<"/">>) THEN 0
                 ELSE IF StartsWith(path, <<"/", "/">>) /\ ~StartsWith(path, <<"/", "/", "/">>)
                      THEN 2 ELSE 1
             body == slash_join(NormComps(split(path), 1, initial_slashes, <<>>))
             out == [k \in 1..initial_slashes |-> "/"] \o body
         IN  IF out = <<>> THEN <<".">> ELSE out

\* os.path.join(a, b) for two parts
path_join(a, b) ==
    IF StartsWith(b, <<"/">>) THEN b
    ELSE IF a = <<>> \/ a[Len(a)] = "/" THEN a \o b
    ELSE a \o <<"/">> \o b

RECURSIVE LastSlash(_, _)
LastSlash(p, i) == IF i = 0 THEN 0 ELSE IF p[i] = "/" THEN i ELSE LastSlash(p, i - 1)

RECURSIVE RStripSlash(_)
RStripSlash(p) ==
    IF p # <<>> /\ p[Len(p)] = "/" THEN RStripSlash(SubSeq(p, 1, Len(p) - 1)) ELSE p

\* os.path.dirname
dirname(p) ==
    LET head == SubSeq(p, 1, LastSlash(p, Len(p)))
    IN  IF head # <<>> /\ \E k \in 1..Len(head) : head[k] # "/" THEN RStripSlash(head) ELSE head

(***************************************************************************)
(* Names and values of the runs                                            *)
(***************************************************************************)
TmpDir == <<"/", "t", "m", "p">>                                    \* tempfile.gettempdir()
SessionsRoot == TmpDir \o <<"/", "s", "e", "s", "s", "i", "o", "n", "s">>
EtcPasswd == <<"/", "e", "t", "c", "/", "p", "a", "s", "s", "w", "d">>

Digits == {"0", "1", "2", "3", "4", "5", "6", "7", "8", "9"}
GoodKey == <<"1", "2", "3", "4", "5", "6", "7", "8", "9", "0">>
ShortKey == <<"1", "2", "3", "4", "5", "6", "7", "8", "9">>
AlphaKey == <<"1", "2", "3", "4", "5", "a", "b", "c", "d", "e">>
Keys == {GoodKey, ShortKey, AlphaKey}

ProjA == <<"a">>
ProjAB == <<"a", "b">>
Projects == {ProjA, ProjAB}

\* the content of a file is the sequence of its characters; "CR" and "LF" stand for
\* carriage return and line feed
Contents == {<<"x">>, <<"y">>}
NoContent == <<"<none>">>
NoPath == <<"<", "n", "o", "n", "e", ">">>

\* str.isdigit() on the ASCII strings of the runs
isdigit(s) == s # <<>> /\ \A i \in 1..Len(s) : s[i] \in Digits

\* the check every validating handler makes: secret_key.isdigit() and len(secret_key) == 10
valid_secret_key(secret_key) == isdigit(secret_key) /\ Len(secret_key) = 10

\* get_session_path: f"/tmp/sessions/{secret_key}_{project_name}"
get_session_path(secret_key, project_name) ==
    SessionsRoot \o <<"/">> \o secret_key \o <<"_">> \o project_name

\* f"{secret_key}_{project_name}"
session_id_of(secret_key, project_name) == secret_key \o <<"_">> \o project_name

\* sanitize_path with only the second test: a plausible slip
sanitize_path_contains_only(path) ==
    LET normalized == normpath(path)
    IN  IF Contains(normalized, <<"/", ".", ".">>)
        THEN [ok |-> FALSE, value |-> normalized]
        ELSE [ok |-> TRUE, value |-> normalized]

\* sanitize_path: ok = FALSE stands for the ValueError it raises
sanitize_path(path) ==
    LET normalized == normpath(path)
    IN  IF StartsWith(normalized, DotDot) \/ Contains(normalized, <<"/", ".", ".">>)
        THEN [ok |-> FALSE, value |-> normalized]
        ELSE [ok |-> TRUE, value |-> normalized]

(***************************************************************************)
(* The disk.  A path handed to the operating system is looked up component *)
(* by component; the run has no symbolic links.                            *)
(***************************************************************************)
RECURSIVE WalkComps(_, _, _)
WalkComps(comps, i, acc) ==
    IF i > Len(comps) THEN acc
    ELSE LET c == comps[i]
         IN  IF c = <<>> \/ c = <<".">> THEN WalkComps(comps, i + 1, acc)
             ELSE IF c = DotDot
             THEN WalkComps(comps, i + 1,
                            IF acc = <<>> THEN acc ELSE SubSeq(acc, 1, Len(acc) - 1))
             ELSE WalkComps(comps, i + 1, Append(acc, c))

\* components of the file the kernel reaches for an absolute path
disk_comps(p) == WalkComps(split(p), 1, <<>>)

\* the canonical absolute path of that file
disk_path(p) == <<"/">> \o slash_join(disk_comps(p))

\* the canonical paths of p and of all its ancestors
ancestors_and_self(p) ==
    LET c == disk_comps(p)
    IN  {<<"/">> \o slash_join(SubSeq(c, 1, k)) : k \in 0..Len(c)}

parent_of(p) ==
    LET c == disk_comps(p)
    IN  <<"/">> \o slash_join(SubSeq(c, 1, Len(c) - 1))

\* os.path.exists, os.path.isdir
path_exists(p) == disk_path(p) \in DOMAIN files \/ disk_path(p) \in dirs
path_isdir(p) == disk_path(p) \in dirs

\* os.makedirs(p, exist_ok=True): fails when p or an ancestor is a regular file
makedirs(p) ==
    IF \E q \in ancestors_and_self(p) : q \in DOMAIN files
    THEN [ok |-> FALSE, dirs |-> dirs, created |-> {}]
    ELSE [ok |-> TRUE, dirs |-> dirs \cup ancestors_and_self(p),
          created |-> ancestors_and_self(p) \ dirs]

\* open(p, 'w') and write: the file is created or replaced; fails on a directory
\* or when the parent directory is missing
write_file(fs, ds, p, content) ==
    LET q == disk_path(p)
    IN  IF q \in ds \/ parent_of(p) \notin ds
        THEN [ok |-> FALSE, files |-> fs]
        ELSE [ok |-> TRUE,
              files |-> [x \in DOMAIN fs \cup {q} |-> IF x = q THEN content ELSE fs[x]]]

\* q is root or lies below it
Inside(root, q) ==
    LET r == disk_comps(root)
        c == disk_comps(q)
    IN  Len(r) <= Len(c) /\ SubSeq(c, 1, Len(r)) = r

\* a removal that takes a directory too, with the files it holds
remove_tree(fs, ds, p) ==
    IF disk_path(p) \notin DOMAIN fs \cup ds
    THEN [ok |-> FALSE, files |-> fs]
    ELSE [ok |-> TRUE, files |-> [x \in {y \in DOMAIN fs : ~Inside(p, y)} |-> fs[x]]]

\* os.remove(p): fails on a directory or a missing file
remove_file(fs, ds, p) ==
    LET q == disk_path(p)
    IN  IF q \notin DOMAIN fs
        THEN [ok |-> FALSE, files |-> fs]
        ELSE [ok |-> TRUE, files |-> [x \in DOMAIN fs \ {q} |-> fs[x]]]

(***************************************************************************)
(* Outcome of a call                                                       *)
(***************************************************************************)
Outcome(op, secret_key, project_name, arg, status, detail, content, touched) ==
    [op |-> op, secret_key |-> secret_key, project_name |-> project_name, arg |-> arg,
     status |-> status, detail |-> detail, content |-> content, touched |-> touched,
     tree |-> {}, notified |-> <<>>, delivered |-> {}, committed |-> FALSE, push |-> "none"]

EmptyMap == [x \in {} |-> 0]

NoCall == Outcome("none", <<>>, <<>>, <<>>, 0, <<>>, NoContent, {})

(***************************************************************************)
(* Text files: aiofiles.open(path, 'w' or 'r', encoding='utf-8') opens in  *)
(* text mode with newline=None.                                            *)
(***************************************************************************)
linesep == <<"LF">>

RECURSIVE TranslateFrom(_, _)
TranslateFrom(data, i) ==
    IF i > Len(data) THEN <<>>
    ELSE IF data[i] = "CR" /\ i < Len(data) /\ data[i + 1] = "LF"
    THEN <<"LF">> \o TranslateFrom(data, i + 2)
    ELSE IF data[i] = "CR"
    THEN <<"LF">> \o TranslateFrom(data, i + 1)
    ELSE <<data[i]>> \o TranslateFrom(data, i + 1)

\* f.read() in text mode: '\r\n' and '\r' are returned as '\n'
universal_newlines(data) == TranslateFrom(data, 1)

\* f.write(content) in text mode: '\n' is written as os.linesep
text_write(content) == replace(content, <<"LF">>, linesep)

(***************************************************************************)
(* main_simple.py: file handlers                                           *)
(***************************************************************************)
get_file_content(secret_key, project_name, file_path) ==
    LET session_path == get_session_path(secret_key, project_name)
        san == sanitize_path(file_path)
        full_path == path_join(session_path, san.value)
        q == disk_path(full_path)
        out(status, detail, content, touched) ==
            Outcome("get_file_content", secret_key, project_name, file_path,
                    status, detail, content, touched)
    IN  /\ last' =
             IF ~valid_secret_key(secret_key)
             THEN out(400, <<"Invalid secret key">>, NoContent, {})
             ELSE IF ~san.ok
             THEN out(500, <<"ValueError: Invalid path: Directory traversal detected">>,
                      NoContent, {})
             ELSE IF ~StartsWith(full_path, session_path)
             THEN out(400, <<"Invalid file path">>, NoContent, {})
             ELSE IF ~path_exists(full_path)
             THEN out(404, <<"File not found">>, NoContent, {})
             ELSE IF path_isdir(full_path)
             THEN out(400, <<"Path is a directory, not a file">>, NoContent, {})
             ELSE out(200, <<>>, universal_newlines(files[q]), {q})
        /\ nops' = nops + 1
        /\ UNCHANGED <<files, dirs, repos, websocket_sessions, pending, git_log, loop>>

save_file(secret_key, project_name, file_path, content) ==
    LET session_path == get_session_path(secret_key, project_name)
        san == sanitize_path(file_path)
        full_path == path_join(session_path, san.value)
        md == makedirs(dirname(full_path))
        wr == write_file(files, md.dirs, full_path, text_write(content))
        out(status, detail, touched) ==
            Outcome("save_file", secret_key, project_name, file_path,
                    status, detail, content, touched)
        early == ~valid_secret_key(secret_key) \/ ~san.ok
                 \/ ~StartsWith(full_path, session_path)
    IN  /\ last' =
             IF ~valid_secret_key(secret_key)
             THEN out(400, <<"Invalid secret key">>, {})
             ELSE IF ~san.ok
             THEN out(500, <<"ValueError: Invalid path: Directory traversal detected">>, {})
             ELSE IF ~StartsWith(full_path, session_path)
             THEN out(400, <<"Invalid file path">>, {})
             ELSE IF ~md.ok
             THEN out(500, <<"FileExistsError">>, {})
             ELSE IF ~wr.ok
             THEN out(500, <<"Error saving file: ", "IsADirectoryError">>, md.created)
             ELSE out(200, <<"File saved successfully">>, md.created \cup {disk_path(full_path)})
        /\ dirs' = IF early \/ ~md.ok THEN dirs ELSE md.dirs
        /\ files' = IF early \/ ~md.ok THEN files ELSE wr.files
        /\ nops' = nops + 1
        /\ UNCHANGED <<repos, websocket_sessions, pending, git_log, loop>>

delete_file(secret_key, project_name, file_path) ==
    LET session_path == get_session_path(secret_key, project_name)
        san == sanitize_path(file_path)
        full_path == path_join(session_path, san.value)
        rm == remove_file(files, dirs, full_path)
        out(status, detail, touched) ==
            Outcome("delete_file", secret_key, project_name, file_path,
                    status, detail, NoContent, touched)
        early == ~valid_secret_key(secret_key) \/ ~san.ok
                 \/ ~StartsWith(full_path, session_path) \/ ~path_exists(full_path)
    IN  /\ last' =
             IF ~valid_secret_key(secret_key)
             THEN out(400, <<"Invalid secret key">>, {})
             ELSE IF ~san.ok
             THEN out(500, <<"ValueError: Invalid path: Directory traversal detected">>, {})
             ELSE IF ~StartsWith(full_path, session_path)
             THEN out(400, <<"Invalid file path">>, {})
             ELSE IF ~path_exists(full_path)
             THEN out(404, <<"File not found">>, {})
             ELSE IF ~rm.ok
             THEN out(500, <<"Error deleting file: ", "IsADirectoryError">>, {})
             ELSE out(200, <<"File deleted successfully">>, {disk_path(full_path)})
        /\ files' = IF early THEN files ELSE rm.files
        /\ nops' = nops + 1
        /\ UNCHANGED <<dirs, repos, websocket_sessions, pending, git_log, loop>>

(***************************************************************************)
(* main.py: file handlers (no key validation, no prefix test)              *)
(***************************************************************************)
read_file(secret_key, project_name, path) ==
    LET san == sanitize_path(path)
        full == path_join(get_session_path(secret_key, project_name), san.value)
        q == disk_path(full)
        out(status, detail, content, touched) ==
            Outcome("read_file", secret_key, project_name, path,
                    status, detail, content, touched)
    IN  /\ last' =
             IF ~san.ok
             THEN out(500, <<"ValueError: Directory traversal detected">>, NoContent, {})
             ELSE IF q \in dirs
             THEN out(500, <<"IsADirectoryError">>, NoContent, {})
             ELSE IF q \notin DOMAIN files
             THEN out(500, <<"FileNotFoundError">>, NoContent, {})
             ELSE out(200, <<>>, universal_newlines(files[q]), {q})
        /\ nops' = nops + 1
        /\ UNCHANGED <<files, dirs, repos, websocket_sessions, pending, git_log, loop>>

main_save_file(secret_key, project_name, path, content) ==
    LET san == sanitize_path(path)
        full == path_join(get_session_path(secret_key, project_name), san.value)
        md == makedirs(dirname(full))
        wr == write_file(files, md.dirs, full, text_write(content))
        out(status, detail, touched) ==
            Outcome("main_save_file", secret_key, project_name, path,
                    status, detail, content, touched)
    IN  /\ last' =
             IF ~san.ok
             THEN out(500, <<"ValueError: Directory traversal detected">>, {})
             ELSE IF ~md.ok
             THEN out(500, <<"FileExistsError">>, {})
             ELSE IF ~wr.ok
             THEN out(500, <<"IsADirectoryError">>, md.created)
             ELSE out(200, <<>>, md.created \cup {disk_path(full)})
        /\ dirs' = IF ~san.ok \/ ~md.ok THEN dirs ELSE md.dirs
        /\ files' = IF ~san.ok \/ ~md.ok THEN files ELSE wr.files
        /\ nops' = nops + 1
        /\ UNCHANGED <<repos, websocket_sessions, pending, git_log, loop>>

(***************************************************************************)
(* Archive import.  An upload is a filename and an archive; an archive is  *)
(* a zip container (valid) with entries in order, each a name, a content   *)
(* and whether its stored checksum matches (crc_ok).  A name ending in '/' *)
(* is a directory entry.                                                   *)
(***************************************************************************)
Entry(name, content, crc_ok) == [name |-> name, content |-> content, crc_ok |-> crc_ok]
Archive(valid, entries) == [valid |-> valid, entries |-> entries]

RECURSIVE FilterParts(_, _)
FilterParts(comps, i) ==
    IF i > Len(comps) THEN <<>>
    ELSE IF comps[i] = <<>> \/ comps[i] = <<".">> \/ comps[i] = DotDot
         THEN FilterParts(comps, i + 1)
    ELSE <<comps[i]>> \o FilterParts(comps, i + 1)

\* the member name kept as it is: what an extraction without the library's cleaning would use
zip_arcname_raw(name) == name

\* ZipFile._extract_member: empty, '.' and '..' components of the member name are dropped
zip_arcname(name) == slash_join(FilterParts(split(name), 1))

zip_is_dir(name) == name # <<>> /\ name[Len(name)] = "/"

\* one member, the target path known: upper directories are made, then the
\* directory or the file
extract_to(fs, ds, e, targetpath, q, upper) ==
    IF \E u \in upper : u \in DOMAIN fs
    THEN [ok |-> FALSE, files |-> fs, dirs |-> ds, touched |-> {}]
    ELSE IF zip_is_dir(e.name)
    THEN IF q \in DOMAIN fs
         THEN [ok |-> FALSE, files |-> fs, dirs |-> ds \cup upper, touched |-> upper \ ds]
         ELSE [ok |-> TRUE, files |-> fs, dirs |-> ds \cup upper \cup {q},
               touched |-> (upper \cup {q}) \ ds]
    ELSE IF q \in ds \cup upper
    THEN [ok |-> FALSE, files |-> fs, dirs |-> ds \cup upper, touched |-> upper \ ds]
    ELSE IF ~e.crc_ok
    THEN [ok |-> FALSE, files |-> write_file(fs, ds \cup upper, targetpath, <<>>).files,
          dirs |-> ds \cup upper, touched |-> (upper \ ds) \cup {q}]
    ELSE [ok |-> TRUE, files |-> write_file(fs, ds \cup upper, targetpath, e.content).files,
          dirs |-> ds \cup upper, touched |-> (upper \ ds) \cup {q}]

\* ZipFile._extract_member
extract_member(fs, ds, targetroot, e) ==
    Bind(normpath(path_join(targetroot, zip_arcname(e.name))),
         LAMBDA targetpath :
             extract_to(fs, ds, e, targetpath, disk_path(targetpath),
                        ancestors_and_self(dirname(targetpath))))

RECURSIVE ExtractFrom(_, _, _, _, _, _)
ExtractFrom(fs, ds, targetroot, entries, i, touched) ==
    IF i > Len(entries)
    THEN [ok |-> TRUE, files |-> fs, dirs |-> ds, touched |-> touched]
    ELSE Bind(extract_member(fs, ds, targetroot, entries[i]),
              LAMBDA r :
                  IF r.ok
                  THEN ExtractFrom(r.files, r.dirs, targetroot, entries, i + 1,
                                   touched \cup r.touched)
                  ELSE [ok |-> FALSE, files |-> r.files, dirs |-> r.dirs,
                        touched |-> touched \cup r.touched])

\* zipfile.ZipFile(path).extractall(targetroot): members in order, stopping at the
\* first that fails; what was extracted before stays
extractall(fs, ds, targetroot, archive) ==
    IF ~archive.valid
    THEN [ok |-> FALSE, files |-> fs, dirs |-> ds, touched |-> {}]
    ELSE ExtractFrom(fs, ds, targetroot, archive.entries, 1, {})

ScratchContent == <<"<zip bytes>">>

\* the state a handler leaves and what it answers
Effect(fs, ds, outcome) == [files |-> fs, dirs |-> ds, last |-> outcome]

\* what the disk does with the bytes of the scratch file: takes them, or has no room
DiskOutcomes == {"ok", "full"}

\* the scratch file of main_simple.py and of main.py
temp_file_path(secret_key, filename) == path_join(TmpDir, secret_key \o <<"_">> \o filename)
temp_zip(filename) == path_join(TmpDir, filename)

\* upload_zip from the scratch file on: open it (created or truncated), write the
\* upload into it, extract, remove it
upload_steps(op, secret_key, project_name, zip_file, session_path, temp_path, md, msg_fail, msg_ok, disk) ==
    Bind(write_file(files, md.dirs, temp_path, IF disk = "ok" THEN ScratchContent ELSE <<>>),
         LAMBDA tw :
        IF ~tw.ok
        THEN Effect(files, md.dirs,
                    Outcome(op, secret_key, project_name, zip_file, 500,
                            <<"IsADirectoryError">>, NoContent, md.created))
        ELSE IF disk # "ok"
        THEN Effect(tw.files, md.dirs,
                    Outcome(op, secret_key, project_name, zip_file, 500,
                            <<"OSError: No space left on device">>, NoContent,
                            md.created \cup {disk_path(temp_path)}))
        ELSE Bind(extractall(tw.files, md.dirs, session_path, zip_file.archive), LAMBDA ex :
                 Effect(remove_file(ex.files, ex.dirs, temp_path).files, ex.dirs,
                        Outcome(op, secret_key, project_name, zip_file,
                                IF ex.ok THEN 200 ELSE 500,
                                IF ex.ok THEN msg_ok ELSE msg_fail, NoContent,
                                md.created \cup {disk_path(temp_path)} \cup ex.touched))))

\* main_simple.py upload_zip
upload_zip_effect(secret_key, project_name, zip_file, disk) ==
    IF ~valid_secret_key(secret_key)
    THEN Effect(files, dirs,
                Outcome("upload_zip", secret_key, project_name, zip_file, 400,
                        <<"Invalid secret key">>, NoContent, {}))
    ELSE Bind(makedirs(get_session_path(secret_key, project_name)), LAMBDA md :
             IF ~md.ok
             THEN Effect(files, dirs,
                         Outcome("upload_zip", secret_key, project_name, zip_file, 500,
                                 <<"FileExistsError">>, NoContent, {}))
             ELSE upload_steps("upload_zip", secret_key, project_name, zip_file,
                               get_session_path(secret_key, project_name),
                               temp_file_path(secret_key, zip_file.filename),
                               md, <<"Failed to extract ZIP file: ">>,
                               <<"ZIP file uploaded and extracted successfully">>, disk))

upload_zip(secret_key, project_name, zip_file, disk) ==
    \E r \in {upload_zip_effect(secret_key, project_name, zip_file, disk)} :
        /\ last' = r.last
        /\ files' = r.files
        /\ dirs' = r.dirs
        /\ nops' = nops + 1
        /\ UNCHANGED <<repos, websocket_sessions, pending, git_log, loop>>

\* main.py upload_zip: no key validation; the scratch file is named by the upload alone
main_upload_zip_effect(secret_key, project_name, zip_file, disk) ==
    Bind(makedirs(get_session_path(secret_key, project_name)), LAMBDA md :
        IF ~md.ok
        THEN Effect(files, dirs,
                    Outcome("main_upload_zip", secret_key, project_name, zip_file, 500,
                            <<"FileExistsError">>, NoContent, {}))
        ELSE upload_steps("main_upload_zip", secret_key, project_name, zip_file,
                          get_session_path(secret_key, project_name),
                          temp_zip(zip_file.filename),
                          md, <<"Invalid ZIP">>, <<>>, disk))

main_upload_zip(secret_key, project_name, zip_file, disk) ==
    \E r \in {main_upload_zip_effect(secret_key, project_name, zip_file, disk)} :
        /\ last' = r.last
        /\ files' = r.files
        /\ dirs' = r.dirs
        /\ nops' = nops + 1
        /\ UNCHANGED <<repos, websocket_sessions, pending, git_log, loop>>

(***************************************************************************)
(* Realtime registry.  A registered connection is its socket (id) and the  *)
(* state of the link behind it: "up", "closed" (a send raises              *)
(* WebSocketDisconnect) or "broken" (a send raises another exception).     *)
(***************************************************************************)
Conn(id, link) == [id |-> id, link |-> link]
Sockets == {"c1", "c2", "c3"}
NoHandler == [pc |-> "none", session_id |-> <<>>, link |-> "up"]

Registered ==
    UNION {{websocket_sessions[sid][i].id : i \in 1..Len(websocket_sessions[sid])} :
               sid \in DOMAIN websocket_sessions}

\* main_simple.py websocket_terminal up to the receive loop: accept and register
websocket_terminal(websocket, secret_key, project_name) ==
    LET session_id == session_id_of(secret_key, project_name)
        old == IF session_id \in DOMAIN websocket_sessions
               THEN websocket_sessions[session_id] ELSE <<>>
    IN  /\ websocket \notin Registered
        /\ ws_handlers[websocket].pc = "none"
        /\ websocket_sessions' =
               [sid \in DOMAIN websocket_sessions \cup {session_id} |->
                    IF sid = session_id THEN Append(old, Conn(websocket, "up"))
                    ELSE websocket_sessions[sid]]
        /\ last' = Outcome("websocket_terminal", secret_key, project_name, websocket,
                           101, <<"accepted">>, NoContent, {})
        /\ nops' = nops + 1
        /\ ws_handlers' = [ws_handlers EXCEPT ![websocket] =
                               [pc |-> "receive", session_id |-> session_id, link |-> "up"]]
        /\ UNCHANGED <<files, dirs, repos, pending, git_log, calls, running>>

RECURSIVE SendAll(_, _, _, _)
\* the delivery pass of broadcast_to_websocket over one session's list
SendAll(conns, i, delivered, disconnected_clients) ==
    IF i > Len(conns)
    THEN [raised |-> FALSE, delivered |-> delivered,
          disconnected_clients |-> disconnected_clients]
    ELSE IF conns[i].link = "up"
    THEN SendAll(conns, i + 1, delivered \cup {conns[i].id}, disconnected_clients)
    ELSE IF conns[i].link = "closed"
    THEN SendAll(conns, i + 1, delivered, disconnected_clients \cup {conns[i].id})
    ELSE [raised |-> TRUE, delivered |-> delivered,
          disconnected_clients |-> disconnected_clients]

\* broadcast_to_websocket(message, secret_key, project_name) with both given and
\* non-empty, as git_commit calls it: the session's connections are sent to in
\* order, then those that raised WebSocketDisconnect are removed
broadcast_to_websocket(sessions, secret_key, project_name) ==
    LET session_id == session_id_of(secret_key, project_name)
    IN  IF session_id \notin DOMAIN sessions
        THEN [raised |-> FALSE, delivered |-> {}, sessions |-> sessions]
        ELSE Bind(SendAll(sessions[session_id], 1, {}, {}), LAMBDA r :
                 [raised |-> r.raised, delivered |-> r.delivered,
                  sessions |->
                      IF r.raised THEN sessions
                      ELSE [sessions EXCEPT ![session_id] =
                                SelectSeq(sessions[session_id],
                                          LAMBDA c : c.id \notin r.disconnected_clients)]])

(***************************************************************************)
(* Git.  A repository is the tree of its HEAD commit (path -> content),    *)
(* the number of its commits and the URL stored for 'origin' in its        *)
(* configuration.  The remote side and the network are the environment:    *)
(* net and push are the outcome of the one network call a handler makes.   *)
(***************************************************************************)
NoRemote == <<"<", "n", "o", " ", "o", "r", "i", "g", "i", "n", ">">>
NoToken == <<>>
Token == <<"t", "0", "k">>
HttpsPrefix == <<"h", "t", "t", "p", "s", ":", "/", "/">>
HttpsUrl == HttpsPrefix \o <<"h", "/", "r">>
SshUrl == <<"g", "i", "t", "@", "h", ":", "r">>
RemoteFile == <<"R">>
DotGit == <<".", "g", "i", "t">>
Masked == <<"*", "*", "*", "*", "*">>
DestinationNotEmpty == "fatal: destination path already exists and is not an empty directory."
UnableToAccess == "fatal: unable to access the remote"

Repository(head, ncommits, origin) == [head |-> head, ncommits |-> ncommits, origin |-> origin]

\* repo_url.replace("https://", f"https://{github_token}@") under its two guards
embed_token(repo_url, github_token) ==
    IF github_token # <<>> /\ StartsWith(repo_url, HttpsPrefix)
    THEN replace(repo_url, HttpsPrefix, HttpsPrefix \o github_token \o <<"@">>)
    ELSE repo_url

\* str(GitCommandError): the command line the library ran is part of the text.
\* Whether the library masks the user part of a URL in it depends on its release.
git_command_error(status, command, shown_args) ==
    <<"Cmd('git') failed due to: exit code(", status, ") cmdline: ", command>> \o shown_args

url_as_shown(url, github_token, masked) ==
    IF masked /\ github_token # <<>> THEN replace(url, github_token, Masked) ELSE url

\* the working tree of a workspace: its files outside .git
WorkTree(fs, ws) ==
    [x \in {q \in DOMAIN fs : Inside(ws, q) /\ ~Inside(ws \o <<"/">> \o DotGit, q)} |-> fs[x]]

dir_is_empty(fs, ds, ws) ==
    /\ \A q \in DOMAIN fs : ~Inside(ws, q)
    /\ \A q \in ds : Inside(ws, q) => q = disk_path(ws)

GitEffect(fs, ds, rs, sessions, outcome) ==
    [files |-> fs, dirs |-> ds, repos |-> rs, sessions |-> sessions, last |-> outcome]

SetRepo(rs, ws, repo) == [x \in DOMAIN rs \cup {ws} |-> IF x = ws THEN repo ELSE rs[x]]

\* git.Repo.clone_from(url, session_path, depth=1) and what the handler answers
clone_into(op, secret_key, project_name, repo_url, url, github_token, ds, created, net, masked, prefix, done) ==
    LET ws == disk_path(get_session_path(secret_key, project_name))
        failed == Outcome(op, secret_key, project_name, repo_url, 500,
                          prefix \o git_command_error("128", "git clone -v --depth=1 ",
                              url_as_shown(url, github_token, masked) \o <<" ">> \o ws)
                              \o <<" stderr: ", IF ~dir_is_empty(files, ds, ws)
                                                THEN DestinationNotEmpty
                                                ELSE UnableToAccess>>,
                          NoContent, created)
    IN  IF ~dir_is_empty(files, ds, ws) \/ net # "ok"
        THEN GitEffect(files, ds, repos, websocket_sessions, failed)
        ELSE Bind(write_file(files, ds, ws \o <<"/">> \o RemoteFile, <<"r">>).files, LAMBDA fs :
                 GitEffect(fs, ds \cup {ws \o <<"/">> \o DotGit},
                           SetRepo(repos, ws, Repository(WorkTree(fs, ws), 1, url)),
                           websocket_sessions,
                           Outcome(op, secret_key, project_name, repo_url, 200,
                                   done, NoContent,
                                   created \cup {ws \o <<"/">> \o RemoteFile,
                                                 ws \o <<"/">> \o DotGit})))

\* main_simple.py clone_repo
clone_repo_effect(secret_key, project_name, repo_url, github_token, net, masked) ==
    IF ~valid_secret_key(secret_key)
    THEN GitEffect(files, dirs, repos, websocket_sessions,
                   Outcome("clone_repo", secret_key, project_name, repo_url, 400,
                           <<"Invalid secret key">>, NoContent, {}))
    ELSE Bind(makedirs(get_session_path(secret_key, project_name)), LAMBDA md :
             IF ~md.ok
             THEN GitEffect(files, dirs, repos, websocket_sessions,
                            Outcome("clone_repo", secret_key, project_name, repo_url, 500,
                                    <<"FileExistsError">>, NoContent, {}))
             ELSE clone_into("clone_repo", secret_key, project_name, repo_url,
                             embed_token(repo_url, github_token), github_token,
                             md.dirs, md.created, net, masked, <<"Git error: ">>,
                             <<"Repository cloned successfully">>))

\* main.py clone_repo: no key validation, the library's text is the whole detail
main_clone_repo_effect(secret_key, project_name, repo_url, github_token, net, masked) ==
    Bind(makedirs(get_session_path(secret_key, project_name)), LAMBDA md :
        IF ~md.ok
        THEN GitEffect(files, dirs, repos, websocket_sessions,
                       Outcome("main_clone_repo", secret_key, project_name, repo_url, 500,
                               <<"FileExistsError">>, NoContent, {}))
        ELSE clone_into("main_clone_repo", secret_key, project_name, repo_url,
                        embed_token(repo_url, github_token), github_token,
                        md.dirs, md.created, net, masked, <<>>, <<"success">>))

ApplyGitEffect(r) ==
    /\ last' = r.last
    /\ files' = r.files
    /\ dirs' = r.dirs
    /\ repos' = r.repos
    /\ websocket_sessions' = r.sessions
    /\ nops' = nops + 1
    /\ UNCHANGED <<pending, loop>>

clone_repo(secret_key, project_name, repo_url, github_token, net, masked) ==
    \E r \in {clone_repo_effect(secret_key, project_name, repo_url, github_token, net, masked)} :
        ApplyGitEffect(r) /\ UNCHANGED git_log

main_clone_repo(secret_key, project_name, repo_url, github_token, net, masked) ==
    \E r \in {main_clone_repo_effect(secret_key, project_name, repo_url, github_token,
                                     net, masked)} :
        ApplyGitEffect(r) /\ UNCHANGED git_log

\* what the try block of main_simple.py git_commit reaches: the state it leaves and
\* either the message it is about to broadcast or the exception it raised
Tried(ds, rs, ok, prefix, message, committed, push) ==
    [dirs |-> ds, repos |-> rs, ok |-> ok, prefix |-> prefix, message |-> message,
     committed |-> committed, push |-> push]

\* the push branch of git_commit, after the commit was made
push_steps(ds, rs, ws, github_token, push) ==
    IF github_token = <<>>
    THEN Tried(ds, rs, TRUE, <<>>,
               <<"Committed changes locally: {commit_message} (no token for push)">>,
               TRUE, "none")
    ELSE IF rs[ws].origin = NoRemote
    THEN Tried(ds, rs, FALSE, <<"Error performing git operations: ">>,
               <<"Remote named 'origin' didn't exist">>, TRUE, "no_remote")
    ELSE Bind(SetRepo(rs, ws, [rs[ws] EXCEPT !.origin = embed_token(@, github_token)]),
              LAMBDA rs2 :
                  IF push = "raise"
                  THEN Tried(ds, rs2, FALSE, <<"Git error: ">>,
                             git_command_error("128", "git push --porcelain origin", <<>>),
                             TRUE, "failed")
                  ELSE Tried(ds, rs2, TRUE, <<>>,
                             <<"Successfully committed and pushed changes: {commit_message}">>,
                             TRUE, IF push = "ok" THEN "ok" ELSE "failed"))

\* add, the commit condition and the commit of git_commit, on an opened repository
commit_steps(ds, rs, ws, github_token, push) ==
    LET tree == WorkTree(files, ws)
        is_dirty == tree # rs[ws].head
    IN  IF ~is_dirty /\ rs[ws].ncommits = 0
        THEN Tried(ds, rs, FALSE, <<"Error performing git operations: ">>,
                   <<"Reference at 'refs/heads/master' does not exist">>, FALSE, "none")
        ELSE IF ~is_dirty
        THEN Tried(ds, rs, FALSE, <<"Git error: ">>,
                   git_command_error("1", "git commit -m={commit_message}", <<>>),
                   FALSE, "none")
        ELSE push_steps(ds, SetRepo(rs, ws, [rs[ws] EXCEPT !.head = tree,
                                                          !.ncommits = @ + 1]),
                        ws, github_token, push)

\* the try block of git_commit: open or initialise the repository, then commit_steps
git_commit_try(ws, github_token, push) ==
    LET dotgit == ws \o <<"/">> \o DotGit
    IN  IF ~path_exists(dotgit)
        THEN commit_steps(dirs \cup {dotgit},
                          SetRepo(repos, ws, Repository(EmptyMap, 0, NoRemote)),
                          ws, github_token, push)
        ELSE IF ws \notin DOMAIN repos
        THEN Tried(dirs, repos, FALSE, <<"Error performing git operations: ">>,
                   <<"InvalidGitRepositoryError">>, FALSE, "none")
        ELSE commit_steps(dirs, repos, ws, github_token, push)

\* the broadcasts that end git_commit and the answer that follows them
git_commit_answer(secret_key, project_name, github_token, t) ==
    LET text == IF t.ok THEN t.message ELSE t.prefix \o t.message
        failure == <<"Error performing git operations: ", "send failed">>
        done(status, detail, notified, delivered, sessions) ==
            GitEffect(files, t.dirs, t.repos, sessions,
                      [Outcome("git_commit", secret_key, project_name, github_token,
                               status, detail, NoContent, {})
                          EXCEPT !.notified = notified, !.delivered = delivered,
                                 !.committed = t.committed, !.push = t.push])
    IN  Bind(broadcast_to_websocket(websocket_sessions, secret_key, project_name), LAMBDA b :
            IF ~b.raised
            THEN done(IF t.ok THEN 200 ELSE 500,
                      IF t.ok THEN <<"Git operations completed successfully">> ELSE text,
                      <<text>>, b.delivered, b.sessions)
            ELSE IF t.ok
            THEN done(500, <<"Internal Server Error">>, <<text, failure>>,
                      b.delivered, b.sessions)
            ELSE done(500, <<"Internal Server Error">>, <<text>>, b.delivered, b.sessions))

\* main_simple.py git_commit
git_commit_effect(secret_key, project_name, github_token, push) ==
    LET session_path == get_session_path(secret_key, project_name)
        refused(status, detail) ==
            GitEffect(files, dirs, repos, websocket_sessions,
                      Outcome("git_commit", secret_key, project_name, github_token,
                              status, detail, NoContent, {}))
    IN  IF ~valid_secret_key(secret_key)
        THEN refused(400, <<"Invalid secret key">>)
        ELSE IF ~path_exists(session_path)
        THEN refused(404, <<"Project session not found">>)
        ELSE Bind(git_commit_try(disk_path(session_path), github_token, push), LAMBDA t :
                 git_commit_answer(secret_key, project_name, github_token, t))

GitLogEntry(o) ==
    [status |-> o.status, kind |-> IF o.detail = <<>> THEN "" ELSE o.detail[1],
     committed |-> o.committed, push |-> o.push]

git_commit(secret_key, project_name, github_token, push) ==
    \E r \in {git_commit_effect(secret_key, project_name, github_token, push)} :
        ApplyGitEffect(r) /\ git_log' = git_log \cup {GitLogEntry(r.last)}

\* main.py git_commit: no key validation, no push, nothing broadcast
main_git_commit_effect(secret_key, project_name) ==
    LET ws == disk_path(get_session_path(secret_key, project_name))
        tree == WorkTree(files, ws)
        answer(rs, status, detail, committed) ==
            GitEffect(files, dirs, rs, websocket_sessions,
                      [Outcome("main_git_commit", secret_key, project_name, <<>>,
                               status, detail, NoContent, {})
                          EXCEPT !.committed = committed])
    IN  IF ws \notin DOMAIN repos
        THEN answer(repos, 500, <<"Internal Server Error">>, FALSE)
        ELSE IF tree # repos[ws].head
        THEN answer(SetRepo(repos, ws, [repos[ws] EXCEPT !.head = tree, !.ncommits = @ + 1]),
                    200, <<"success">>, TRUE)
        ELSE answer(repos, 200, <<"success">>, FALSE)

main_git_commit(secret_key, project_name) ==
    \E r \in {main_git_commit_effect(secret_key, project_name)} :
        ApplyGitEffect(r) /\ git_log' = git_log \cup {GitLogEntry(r.last)}

(***************************************************************************)
(* main_simple.py git_commit as a coroutine of the event loop.  The        *)
(* program runs in one process on one event loop (uvicorn.run): a          *)
(* coroutine keeps the loop until it reaches an await that suspends it.    *)
(* git_commit awaits only inside broadcast_to_websocket, at send_text.     *)
(* Positions: "start"; "added" after repo.git.add; "committed" after       *)
(* repo.git.commit; "send" while suspended in websocket.send_text(target); *)
(* "done" after the answer.                                                *)
(***************************************************************************)
\* the rewrite: every position releases the event loop
suspends_everywhere(pc) == TRUE

\* the positions at which a coroutine is suspended and the event loop is free
suspends(pc) == pc = "send"

GroupOf(sessions, session_id) ==
    IF session_id \in DOMAIN sessions THEN sessions[session_id] ELSE <<>>

Ids(conns) == {conns[i].id : i \in 1..Len(conns)}

Ended == {c \in Sockets : ws_handlers[c].pc = "ended"}

SendFailed == "Cannot call send once a close message has been sent"

NewCall(secret_key, project_name, github_token) ==
    [op |-> "git_commit", secret_key |-> secret_key, project_name |-> project_name,
     github_token |-> github_token, pc |-> "start", phase |-> "try", message |-> <<>>,
     committed |-> FALSE, push |-> "none", it |-> 1, target |-> "", disconnected_clients |-> <<>>,
     start_group |-> {}, ended_at_start |-> {}, delivered |-> {}, failed |-> {},
     passes |-> <<>>, status |-> 0, detail |-> <<>>]

\* what one finished delivery pass did, kept for the record
PassRecord(call, raised, end_group) ==
    [start_group |-> call.start_group, ended_at_start |-> call.ended_at_start,
     delivered |-> call.delivered, failed |-> call.failed, raised |-> raised,
     end_group |-> end_group]

Answered(call, status, detail) ==
    [call EXCEPT !.pc = "done", !.status = status, !.detail = detail]

\* after the last broadcast: return of the try block, or the raise of an except block
conclude(call) ==
    IF call.phase = "try"
    THEN Answered(call, 200, <<"Git operations completed successfully">>)
    ELSE Answered(call, 500, call.message)

\* 'for websocket in websocket_sessions[session_id]' asks the list for its next
\* element: the list as it is now, at the index the iterator has reached.  When
\* the list is exhausted the collected clients are removed and the pass is over.
next_send(call, sessions) ==
    LET session_id == session_id_of(call.secret_key, call.project_name)
        conns == GroupOf(sessions, session_id)
    IN  IF call.it <= Len(conns)
        THEN [over |-> FALSE, sessions |-> sessions,
              call |-> [call EXCEPT !.pc = "send", !.target = conns[call.it].id, !.it = @ + 1]]
        ELSE Bind(SelectSeq(conns, LAMBDA c : c.id \notin Ids(call.disconnected_clients)),
                  LAMBDA kept :
                      [over |-> TRUE,
                       sessions |-> IF session_id \in DOMAIN sessions
                                    THEN [sessions EXCEPT ![session_id] = kept]
                                    ELSE sessions,
                       call |-> [call EXCEPT !.passes =
                                     Append(@, PassRecord(call, FALSE, kept))]])

\* broadcast_to_websocket(message, secret_key, project_name) up to its first
\* suspension, or to its end when there is nobody to send to
enter_broadcast(call, sessions) ==
    LET session_id == session_id_of(call.secret_key, call.project_name)
        fresh == [call EXCEPT !.it = 1, !.disconnected_clients = <<>>,
                              !.start_group = Ids(GroupOf(sessions, session_id)),
                              !.ended_at_start = Ended,
                              !.delivered = {}, !.failed = {}]
    IN  Bind(next_send(fresh, sessions), LAMBDA r :
            IF r.over THEN [over |-> TRUE, sessions |-> r.sessions, call |-> conclude(r.call)]
            ELSE r)

\* the coroutine resumes from send_text(target): the send went through, raised
\* WebSocketDisconnect (collected) or raised something else (leaves the broadcast)
after_send(call, sessions) ==
    LET link == ws_handlers[call.target].link
        session_id == session_id_of(call.secret_key, call.project_name)
        thrown == [call EXCEPT !.failed = @ \cup {call.target},
                               !.passes = Append(@, PassRecord(
                                   [call EXCEPT !.failed = @ \cup {call.target}], TRUE,
                                   GroupOf(sessions, session_id)))]
    IN  IF link = "broken"
        THEN IF call.phase = "try"
             THEN enter_broadcast([thrown EXCEPT !.phase = "except",
                                       !.message = <<"Error performing git operations: ",
                                                     SendFailed>>],
                                  sessions)
             ELSE [over |-> TRUE, sessions |-> sessions,
                   call |-> Answered(thrown, 500, <<"Internal Server Error">>)]
        ELSE Bind(IF link = "up"
                  THEN [call EXCEPT !.delivered = @ \cup {call.target}]
                  ELSE [call EXCEPT !.failed = @ \cup {call.target},
                                    !.disconnected_clients =
                                        Append(@, Conn(call.target, link))],
                  LAMBDA c1 :
                      Bind(next_send(c1, sessions), LAMBDA r :
                          IF r.over
                          THEN [over |-> TRUE, sessions |-> r.sessions,
                                call |-> conclude(r.call)]
                          ELSE r))

\* the answer of a finished git_commit coroutine, as an Outcome
CallOutcome(call) ==
    [Outcome("git_commit", call.secret_key, call.project_name, call.github_token,
             call.status, call.detail, NoContent, {})
        EXCEPT !.committed = call.committed, !.push = call.push,
               !.delivered = UNION {call.passes[i].delivered : i \in 1..Len(call.passes)}]

\* one uninterrupted run of coroutine k, from where it was to its next suspension
LoopStep(k, new_calls, sessions, ds, rs) ==
    /\ calls' = new_calls
    /\ running' = IF suspends(new_calls[k].pc) \/ new_calls[k].pc = "done" THEN 0 ELSE k
    /\ websocket_sessions' = sessions
    /\ dirs' = ds
    /\ repos' = rs
    /\ IF new_calls[k].pc = "done"
       THEN /\ last' = CallOutcome(new_calls[k])
            /\ git_log' = git_log \cup {GitLogEntry(CallOutcome(new_calls[k]))}
       ELSE UNCHANGED <<last, git_log>>
    /\ UNCHANGED <<files, nops, pending, ws_handlers>>

may_run(k) == running = k \/ (running = 0 /\ suspends(calls[k].pc))

\* a failure inside the try block: the except block broadcasts it, then raises
raise_in_try(call, sessions, prefix, text) ==
    enter_broadcast([call EXCEPT !.phase = "except", !.message = prefix \o text], sessions)

\* git_commit lines 381-403: the request is taken up, the key and the workspace are
\* tested, the repository is opened or initialised, everything is staged
commit_open(secret_key, project_name, github_token) ==
    LET call == NewCall(secret_key, project_name, github_token)
        session_path == get_session_path(secret_key, project_name)
        ws == disk_path(session_path)
        dotgit == ws \o <<"/">> \o DotGit
        result(c, sessions, ds, rs) == [call |-> c, sessions |-> sessions, dirs |-> ds, repos |-> rs]
    IN  IF ~valid_secret_key(secret_key)
        THEN result(Answered(call, 400, <<"Invalid secret key">>), websocket_sessions, dirs, repos)
        ELSE IF ~path_exists(session_path)
        THEN result(Answered(call, 404, <<"Project session not found">>),
                    websocket_sessions, dirs, repos)
        ELSE IF ~path_exists(dotgit)
        THEN result([call EXCEPT !.pc = "added"], websocket_sessions, dirs \cup {dotgit},
                    SetRepo(repos, ws, Repository(EmptyMap, 0, NoRemote)))
        ELSE IF ws \notin DOMAIN repos
        THEN Bind(raise_in_try(call, websocket_sessions, <<"Error performing git operations: ">>,
                               <<"InvalidGitRepositoryError">>),
                  LAMBDA r : result(r.call, r.sessions, dirs, repos))
        ELSE result([call EXCEPT !.pc = "added"], websocket_sessions, dirs, repos)

CommitOpen(secret_key, project_name, github_token) ==
    /\ running = 0
    /\ Len(calls) < MaxCalls
    /\ \E r \in {commit_open(secret_key, project_name, github_token)} :
           LoopStep(Len(calls) + 1, Append(calls, r.call), r.sessions, r.dirs, r.repos)

\* git_commit lines 405-407: the commit condition and repo.git.commit
commit_commit(call) ==
    LET ws == disk_path(get_session_path(call.secret_key, call.project_name))
    IN  Bind(commit_steps(dirs, repos, ws, <<>>, "ok"), LAMBDA t :
            IF t.ok
            THEN [call |-> [call EXCEPT !.pc = "committed", !.committed = TRUE],
                  sessions |-> websocket_sessions, repos |-> t.repos]
            ELSE Bind(raise_in_try(call, websocket_sessions, t.prefix, t.message),
                      LAMBDA r : [call |-> r.call, sessions |-> r.sessions, repos |-> t.repos]))

CommitCommit(k) ==
    /\ may_run(k)
    /\ calls[k].pc = "added"
    /\ \E r \in {commit_commit(calls[k])} :
           LoopStep(k, [calls EXCEPT ![k] = r.call], r.sessions, dirs, r.repos)

\* git_commit lines 409-425: the push when a token was given, then the first broadcast
commit_push(call, push) ==
    LET ws == disk_path(get_session_path(call.secret_key, call.project_name))
    IN  Bind(push_steps(dirs, repos, ws, call.github_token, push), LAMBDA t :
            Bind(IF t.ok
                 THEN enter_broadcast([call EXCEPT !.push = t.push, !.message = t.message],
                                      websocket_sessions)
                 ELSE raise_in_try([call EXCEPT !.push = t.push], websocket_sessions,
                                   t.prefix, t.message),
                 LAMBDA r : [call |-> r.call, sessions |-> r.sessions, repos |-> t.repos]))

CommitPush(k, push) ==
    /\ may_run(k)
    /\ calls[k].pc = "committed"
    /\ \E r \in {commit_push(calls[k], push)} :
           LoopStep(k, [calls EXCEPT ![k] = r.call], r.sessions, dirs, r.repos)

\* the coroutine is resumed from a send and runs to its next send or to its answer
AfterSend(k) ==
    /\ may_run(k)
    /\ calls[k].pc = "send"
    /\ \E r \in {after_send(calls[k], websocket_sessions)} :
           LoopStep(k, [calls EXCEPT ![k] = r.call], r.sessions, dirs, repos)

\* the peer of a socket goes away: from now on a send to it raises, WebSocketDisconnect
\* ("closed") or another exception ("broken"), as the server library decides
LinkFails(websocket, kind) ==
    /\ running = 0
    /\ ws_handlers[websocket].pc = "receive"
    /\ ws_handlers[websocket].link = "up"
    /\ ws_handlers' = [ws_handlers EXCEPT ![websocket].link = kind]
    /\ websocket_sessions' =
           [sid \in DOMAIN websocket_sessions |->
                [i \in 1..Len(websocket_sessions[sid]) |->
                     IF websocket_sessions[sid][i].id = websocket
                     THEN Conn(websocket, kind)
                     ELSE websocket_sessions[sid][i]]]
    /\ UNCHANGED <<files, dirs, repos, last, nops, pending, git_log, calls, running>>

\* websocket_terminal lines 329-336: receive_text raises WebSocketDisconnect and the
\* handler removes its socket from the list of its session
websocket_disconnect(websocket) ==
    LET session_id == ws_handlers[websocket].session_id
    IN  /\ running = 0
        /\ ws_handlers[websocket].pc = "receive"
        /\ ws_handlers[websocket].link # "up"
        /\ ws_handlers' = [ws_handlers EXCEPT ![websocket].pc = "ended"]
        /\ websocket_sessions' =
               IF session_id \in DOMAIN websocket_sessions
               THEN [websocket_sessions EXCEPT ![session_id] =
                         SelectSeq(@, LAMBDA c : c.id # websocket)]
               ELSE websocket_sessions
        /\ UNCHANGED <<files, dirs, repos, last, nops, pending, git_log, calls, running>>

(***************************************************************************)
(* login (both programs) and main_simple.py get_file_tree                  *)
(***************************************************************************)
login(secret_key, project_name) ==
    /\ last' = IF ~valid_secret_key(secret_key)
               THEN Outcome("login", secret_key, project_name, <<>>, 400,
                            <<"Secret key must be 10 digits">>, NoContent, {})
               ELSE Outcome("login", secret_key, project_name, <<>>, 200,
                            <<"/dashboard?secret_key=">> \o secret_key \o
                                <<"&project_name=">> \o project_name,
                            NoContent, {})
    /\ nops' = nops + 1
    /\ UNCHANGED <<files, dirs, repos, websocket_sessions, pending, git_log, loop>>

\* build_tree(session_path): every directory and file found below the workspace
build_tree(path) ==
    {q \in DOMAIN files \cup dirs : Inside(path, q)}

get_file_tree(secret_key, project_name) ==
    LET session_path == get_session_path(secret_key, project_name)
    IN  /\ last' = IF ~valid_secret_key(secret_key)
                   THEN Outcome("get_file_tree", secret_key, project_name, <<>>, 400,
                                <<"Invalid secret key">>, NoContent, {})
                   ELSE IF ~path_exists(session_path)
                   THEN Outcome("get_file_tree", secret_key, project_name, <<>>, 404,
                                <<"Project session not found">>, NoContent, {})
                   ELSE [Outcome("get_file_tree", secret_key, project_name, <<>>, 200,
                                 <<>>, NoContent, build_tree(session_path))
                            EXCEPT !.tree = build_tree(session_path)]
        /\ nops' = nops + 1
        /\ UNCHANGED <<files, dirs, repos, websocket_sessions, pending, git_log, loop>>

(***************************************************************************)
(* Initial state: the machine's own files, the sessions root created at    *)
(* start-up (main.py lines 27-29), no workspace, no repository, nobody     *)
(* connected.                                                              *)
(***************************************************************************)
InitFiles == [x \in {EtcPasswd} |-> <<"passwd">>]
InitDirs == {<<"/">>, <<"/", "e", "t", "c">>, TmpDir, SessionsRoot}

Init ==
    /\ files = InitFiles
    /\ dirs = InitDirs
    /\ repos = EmptyMap
    /\ websocket_sessions = EmptyMap
    /\ last = NoCall
    /\ nops = 0
    /\ pending = NoPath
    /\ git_log = {}
    /\ calls = <<>>
    /\ running = 0
    /\ ws_handlers = [c \in Sockets |-> NoHandler]

(***************************************************************************)
(* Path-resolution runs: one client path, every string over PathAlphabet   *)
(* up to MaxPathLen and the examples of the documentation, is handed to    *)
(* one file handler of a valid session.                                    *)
(***************************************************************************)
PathAlphabet == {"/", ".", "a"}
EnumPaths == UNION {[1..n -> PathAlphabet] : n \in 0..MaxPathLen}
ExampleEtc == <<".", ".", "/", ".", ".", "/", "e", "t", "c", "/", "p", "a", "s", "s", "w", "d">>
ExampleAB == <<"a", "/", ".", ".", "/", ".", ".", "/", "b">>
ExamplePaths == {ExampleEtc, ExampleAB}

InitPaths ==
    /\ files = InitFiles
    /\ dirs = InitDirs
    /\ repos = EmptyMap
    /\ websocket_sessions = EmptyMap
    /\ last = NoCall
    /\ nops = 0
    /\ pending \in EnumPaths \cup ExamplePaths
    /\ git_log = {}
    /\ calls = <<>>
    /\ running = 0
    /\ ws_handlers = [c \in Sockets |-> NoHandler]

ResolveGetFileContent ==
    nops = 0 /\ \E p \in Projects : get_file_content(GoodKey, p, pending)
ResolveSaveFile ==
    nops = 0 /\ \E p \in Projects, c \in Contents : save_file(GoodKey, p, pending, c)
ResolveDeleteFile ==
    nops = 0 /\ \E p \in Projects : delete_file(GoodKey, p, pending)
ResolveReadFile ==
    nops = 0 /\ \E p \in Projects : read_file(GoodKey, p, pending)
ResolveMainSaveFile ==
    nops = 0 /\ \E p \in Projects, c \in Contents : main_save_file(GoodKey, p, pending, c)

PathsNext ==
    \/ ResolveGetFileContent
    \/ ResolveSaveFile
    \/ ResolveDeleteFile
    \/ ResolveReadFile
    \/ ResolveMainSaveFile

SpecPaths == InitPaths /\ [][PathsNext]_vars

(***************************************************************************)
(* File runs: up to MaxOps calls of the file handlers by two sessions of   *)
(* one valid key.                                                          *)
(***************************************************************************)
PathF == <<"f">>
PathD == <<"d">>
PathDF == <<"d", "/", "f">>
PathBackF == <<"d", "/", ".", ".", "/", "f">>
PathUpF == <<".", ".", "/", "f">>
AbsInA == get_session_path(GoodKey, ProjA) \o <<"/", "f">>
AbsInAB == get_session_path(GoodKey, ProjAB) \o <<"/", "f">>
ClientPaths == {PathF, PathD, PathDF, PathBackF, PathUpF, EtcPasswd, AbsInA, AbsInAB}

CallGetFileContent ==
    nops < MaxOps /\ \E p \in Projects, f \in ClientPaths : get_file_content(GoodKey, p, f)
CallSaveFile ==
    nops < MaxOps /\ \E p \in Projects, f \in ClientPaths, c \in Contents :
        save_file(GoodKey, p, f, c)
CallDeleteFile ==
    nops < MaxOps /\ \E p \in Projects, f \in ClientPaths : delete_file(GoodKey, p, f)
CallReadFile ==
    nops < MaxOps /\ \E p \in Projects, f \in ClientPaths : read_file(GoodKey, p, f)
CallMainSaveFile ==
    nops < MaxOps /\ \E p \in Projects, f \in ClientPaths, c \in Contents :
        main_save_file(GoodKey, p, f, c)

FilesNext ==
    \/ CallGetFileContent
    \/ CallSaveFile
    \/ CallDeleteFile
    \/ CallReadFile
    \/ CallMainSaveFile

SpecFiles == Init /\ [][FilesNext]_vars

(***************************************************************************)
(* Text runs: up to MaxOps saves and reads of one session, with contents   *)
(* that hold line ends, on a path of the workspace root and on a path      *)
(* whose parent directory does not exist yet.                              *)
(***************************************************************************)
TextContents ==
    {<<>>, <<"x">>, <<"x", "LF", "y">>, <<"x", "CR", "LF", "y">>, <<"x", "CR">>}
TextPaths == {PathF, PathDF}

TextSaveFile ==
    nops < MaxOps /\ \E f \in TextPaths, c \in TextContents : save_file(GoodKey, ProjA, f, c)
TextGetFileContent ==
    nops < MaxOps /\ \E f \in TextPaths : get_file_content(GoodKey, ProjA, f)
TextMainSaveFile ==
    nops < MaxOps /\ \E f \in TextPaths, c \in TextContents :
        main_save_file(GoodKey, ProjA, f, c)
TextReadFile ==
    nops < MaxOps /\ \E f \in TextPaths : read_file(GoodKey, ProjA, f)

TextNext ==
    \/ TextSaveFile
    \/ TextGetFileContent
    \/ TextMainSaveFile
    \/ TextReadFile

SpecText == Init /\ [][TextNext]_vars

(***************************************************************************)
(* Vocabulary of the properties                                            *)
(***************************************************************************)
FileOps == {"get_file_content", "save_file", "delete_file", "read_file", "main_save_file"}
ReadOps == {"get_file_content", "read_file"}

Relative(path) == ~StartsWith(path, <<"/">>)

\* some '/'-separated segment of the path is '..'
HasParentSegment(path) == \E i \in 1..Len(split(path)) : split(path)[i] = DotDot

\* walking the segments from a starting directory, the path steps above it
RECURSIVE ClimbsFrom(_, _, _)
ClimbsFrom(comps, i, depth) ==
    IF i > Len(comps) THEN FALSE
    ELSE IF comps[i] = <<>> \/ comps[i] = <<".">> THEN ClimbsFrom(comps, i + 1, depth)
    ELSE IF comps[i] = DotDot
         THEN depth = 0 \/ ClimbsFrom(comps, i + 1, depth - 1)
    ELSE ClimbsFrom(comps, i + 1, depth + 1)

Climbs(path) == ClimbsFrom(split(path), 1, 0)


LastRoot == get_session_path(last.secret_key, last.project_name)

\* the call failed in path resolution: sanitize_path raised, or the prefix test refused
PathEscape ==
    \/ last.status = 500 /\ last.detail \in
           {<<"ValueError: Invalid path: Directory traversal detected">>,
            <<"ValueError: Directory traversal detected">>}
    \/ last.status = 400 /\ last.detail = <<"Invalid file path">>

\* the files and directories at or below root
View(root, fs, ds) ==
    [files |-> [x \in {q \in DOMAIN fs : Inside(root, q)} |-> fs[x]],
     dirs |-> {q \in ds : Inside(root, q)}]

C2_TouchedInsideRoot ==
    last.op \in FileOps => \A q \in last.touched : Inside(LastRoot, q)

(***************************************************************************)
(* C3                                                                      *)
(***************************************************************************)
\* C3: a file call under one session returns no content from, and changes nothing
\* in, the workspace of a session with another SessionId.
C3_SessionsIsolated ==
    [][\A p2 \in Projects :
          (last'.op \in FileOps /\ p2 # last'.project_name)
              => /\ View(get_session_path(GoodKey, p2), files', dirs')
                        = View(get_session_path(GoodKey, p2), files, dirs)
                 /\ \A q \in last'.touched : ~Inside(get_session_path(GoodKey, p2), q)]_vars

(***************************************************************************)
(* Archive runs: up to MaxOps uploads by two sessions of one valid key.    *)
(***************************************************************************)
NameEvil == <<".", ".", "/", "e", "v", "i", "l", ".", "t", "x", "t">>
NameG == <<"g">>
NameFG == <<"f", "/", "g">>
NameDir == <<"d", "/">>

ArchiveOk == Archive(TRUE, <<Entry(PathF, <<"x">>, TRUE), Entry(NameDir, <<>>, TRUE)>>)
ArchiveEvil == Archive(TRUE, <<Entry(NameEvil, <<"y">>, TRUE)>>)
ArchiveAbs == Archive(TRUE, <<Entry(PathF, <<"x">>, TRUE), Entry(EtcPasswd, <<"y">>, TRUE)>>)
ArchiveClash == Archive(TRUE, <<Entry(PathF, <<"x">>, TRUE), Entry(NameFG, <<"y">>, TRUE)>>)
ArchiveBadCrc == Archive(TRUE, <<Entry(NameG, <<"x">>, TRUE), Entry(PathF, <<"y">>, FALSE)>>)
ArchiveEvilLate == Archive(TRUE, <<Entry(PathDF, <<"x">>, TRUE), Entry(NameEvil, <<"y">>, TRUE)>>)
ArchiveNotZip == Archive(FALSE, <<>>)
Archives == {ArchiveOk, ArchiveEvil, ArchiveAbs, ArchiveClash, ArchiveBadCrc,
             ArchiveEvilLate, ArchiveNotZip}

UploadName == <<"u", ".", "z", "i", "p">>
Uploads == {[filename |-> UploadName, archive |-> a] : a \in Archives}

CallUploadZip ==
    nops < MaxOps /\ \E p \in Projects, z \in Uploads, disk \in DiskOutcomes :
        upload_zip(GoodKey, p, z, disk)
CallMainUploadZip ==
    nops < MaxOps /\ \E p \in Projects, z \in Uploads, disk \in DiskOutcomes :
        main_upload_zip(GoodKey, p, z, disk)

ArchiveNext ==
    \/ CallUploadZip
    \/ CallMainUploadZip

SpecArchive == Init /\ [][ArchiveNext]_vars

UploadOps == {"upload_zip", "main_upload_zip"}

\* an entry name that, taken as it is, leaves the directory it is extracted into
Escaping(name) == Climbs(name) \/ StartsWith(name, <<"/">>)
HasEscapingEntry(archive) ==
    \E i \in 1..Len(archive.entries) : Escaping(archive.entries[i].name)

\* where an upload call put its scratch file
ScratchOf(call) ==
    IF call.op = "upload_zip"
    THEN disk_path(temp_file_path(call.secret_key, call.arg.filename))
    ELSE disk_path(temp_zip(call.arg.filename))

LastScratch == ScratchOf(last)

IsPart(c) == c # <<>> /\ c # <<".">> /\ c # DotDot

\* where an entry is expected: its name without empty, '.' and '..' segments, below root
ExpectedTarget(root, name) == disk_path(root \o <<"/">> \o slash_join(SelectSeq(split(name), IsPart)))

C8_FailedImportChangesNothing ==
    [][(last'.op \in UploadOps /\ last'.status # 200)
          => View(LastRoot', files', dirs').files = View(LastRoot', files, dirs).files]_vars


(***************************************************************************)
(* Git runs: one session of a valid key edits a file, clones and commits   *)
(* through both programs, with one terminal that may connect.              *)
(***************************************************************************)
Urls == {HttpsUrl, SshUrl}
Tokens == {NoToken, Token}
CloneResults == {"ok", "fail"}
PushResults == {"ok", "raise", "silent"}

EditFile ==
    /\ nops < MaxGitOps
    /\ \E content \in Contents : save_file(GoodKey, ProjA, PathF, content)

Connect ==
    /\ nops < MaxGitOps
    /\ websocket_terminal("c1", GoodKey, ProjA)

CallCloneRepo ==
    /\ nops < MaxGitOps
    /\ \E repo_url \in Urls, github_token \in Tokens, net \in CloneResults, masked \in BOOLEAN :
           clone_repo(GoodKey, ProjA, repo_url, github_token, net, masked)

CallMainCloneRepo ==
    /\ nops < MaxGitOps
    /\ \E repo_url \in Urls, github_token \in Tokens, net \in CloneResults, masked \in BOOLEAN :
           main_clone_repo(GoodKey, ProjA, repo_url, github_token, net, masked)

CallGitCommit ==
    /\ nops < MaxGitOps
    /\ \E github_token \in Tokens, push \in PushResults :
           git_commit(GoodKey, ProjA, github_token, push)

CallMainGitCommit ==
    /\ nops < MaxGitOps
    /\ main_git_commit(GoodKey, ProjA)

GitNext ==
    \/ EditFile
    \/ Connect
    \/ CallCloneRepo
    \/ CallMainCloneRepo
    \/ CallGitCommit
    \/ CallMainGitCommit

SpecGit == Init /\ [][GitNext]_vars

CloneOps == {"clone_repo", "main_clone_repo"}
CommitOps == {"git_commit", "main_git_commit"}

\* C11: a clone into a workspace that already holds something does not fail because
\* of what it holds, and when it succeeds the workspace holds only the cloned files.
C11_CloneReplacesExistingContent ==
    [][\A ws \in {disk_path(get_session_path(last'.secret_key, last'.project_name))} :
           (/\ last'.op \in CloneOps
            /\ nops' = nops + 1
            /\ ~dir_is_empty(files, dirs, ws))
           => (/\ \A i \in 1..Len(last'.detail) : last'.detail[i] # DestinationNotEmpty
               /\ last'.status = 200
                      => DOMAIN WorkTree(files', ws) = {ws \o <<"/">> \o RemoteFile})]_vars

\* C5: once a clone or a commit was given an access token, the URL stored for
\* 'origin' in the repository of the workspace does not contain that token.
C5_StoredOriginHasNoToken ==
    \A ws \in DOMAIN repos : ~Contains(repos[ws].origin, Token)

\* C6: no failure detail returned to the caller and no message broadcast to the
\* terminals contains the access token given to the call.
C6_TokenNeverInOutput ==
    /\ ~Contains(last.detail, Token)
    /\ \A i \in 1..Len(last.notified) : ~Contains(last.notified[i], Token)

\* C9: a commit called on a workspace whose files are exactly those of its last
\* commit answers success (CommitNoop) and creates no commit.
C9_NoChangeCommitIsNoop ==
    [][\A ws \in DOMAIN repos :
           (/\ last'.op \in CommitOps
            /\ nops' = nops + 1
            /\ ws = disk_path(get_session_path(last'.secret_key, last'.project_name))
            /\ repos[ws].ncommits > 0
            /\ WorkTree(files, ws) = repos[ws].head)
           => (/\ last'.status = 200
               /\ ~last'.committed
               /\ repos'[ws].ncommits = repos[ws].ncommits)]_vars

\* C10: a commit call whose local commit was made and whose push failed is answered
\* with a kind of outcome ('committed, not pushed') that no call in which nothing was
\* committed is answered with.
C10_CommittedNotPushedIsDistinct ==
    \A a, b \in git_log :
        (a.committed /\ a.push = "failed" /\ ~b.committed)
        => <<a.status, a.kind>> # <<b.status, b.kind>>


(***************************************************************************)
(* Identity runs: every operation that takes a secret key is called with a *)
(* well-formed key and with malformed ones.                                *)
(***************************************************************************)
AnyKeyLogin ==
    /\ nops < MaxOps
    /\ \E secret_key \in Keys : login(secret_key, ProjA)

AnyKeyGetFileTree ==
    /\ nops < MaxOps
    /\ \E secret_key \in Keys : get_file_tree(secret_key, ProjA)

AnyKeyGetFileContent ==
    /\ nops < MaxOps
    /\ \E secret_key \in Keys : get_file_content(secret_key, ProjA, PathF)

AnyKeySaveFile ==
    /\ nops < MaxOps
    /\ \E secret_key \in Keys : save_file(secret_key, ProjA, PathF, <<"x">>)

AnyKeyDeleteFile ==
    /\ nops < MaxOps
    /\ \E secret_key \in Keys : delete_file(secret_key, ProjA, PathF)

AnyKeyUploadZip ==
    /\ nops < MaxOps
    /\ \E secret_key \in Keys :
           upload_zip(secret_key, ProjA, [filename |-> UploadName, archive |-> ArchiveOk], "ok")

AnyKeyCloneRepo ==
    /\ nops < MaxOps
    /\ \E secret_key \in Keys, net \in CloneResults :
           clone_repo(secret_key, ProjA, HttpsUrl, NoToken, net, TRUE)

AnyKeyGitCommit ==
    /\ nops < MaxOps
    /\ \E secret_key \in Keys : git_commit(secret_key, ProjA, NoToken, "ok")

AnyKeyConnect ==
    /\ nops < MaxOps
    /\ \E secret_key \in Keys : websocket_terminal("c1", secret_key, ProjA)

AnyKeyReadFile ==
    /\ nops < MaxOps
    /\ \E secret_key \in Keys : read_file(secret_key, ProjA, PathF)

AnyKeyMainSaveFile ==
    /\ nops < MaxOps
    /\ \E secret_key \in Keys : main_save_file(secret_key, ProjA, PathF, <<"x">>)

AnyKeyMainUploadZip ==
    /\ nops < MaxOps
    /\ \E secret_key \in Keys :
           main_upload_zip(secret_key, ProjA, [filename |-> UploadName, archive |-> ArchiveOk], "ok")

AnyKeyMainCloneRepo ==
    /\ nops < MaxOps
    /\ \E secret_key \in Keys, net \in CloneResults :
           main_clone_repo(secret_key, ProjA, HttpsUrl, NoToken, net, TRUE)

AnyKeyMainGitCommit ==
    /\ nops < MaxOps
    /\ \E secret_key \in Keys : main_git_commit(secret_key, ProjA)

IdentityNext ==
    \/ AnyKeyLogin
    \/ AnyKeyGetFileTree
    \/ AnyKeyGetFileContent
    \/ AnyKeySaveFile
    \/ AnyKeyDeleteFile
    \/ AnyKeyUploadZip
    \/ AnyKeyCloneRepo
    \/ AnyKeyGitCommit
    \/ AnyKeyConnect
    \/ AnyKeyReadFile
    \/ AnyKeyMainSaveFile
    \/ AnyKeyMainUploadZip
    \/ AnyKeyMainCloneRepo
    \/ AnyKeyMainGitCommit

SpecIdentity == Init /\ [][IdentityNext]_vars

\* C4: every operation that takes a secret key, called with a key that is not exactly
\* ten decimal digits, answers InvalidIdentity (status 400) and changes neither the
\* disk, nor a repository, nor the registry of connections.
C4_InvalidKeyRefusedEverywhere ==
    [][(nops' = nops + 1 /\ ~valid_secret_key(last'.secret_key))
       => (/\ last'.status = 400
           /\ files' = files
           /\ dirs' = dirs
           /\ repos' = repos
           /\ websocket_sessions' = websocket_sessions)]_vars


(***************************************************************************)
(* Event-loop runs: one session with a cloned repository, one edited file  *)
(* and two terminals connected (the state Init reaches by clone_repo,      *)
(* save_file and two websocket_terminal calls).  In the notification runs  *)
(* one git_commit call arrives, a third terminal may connect, links fail   *)
(* and terminals disconnect.  In the commit runs up to MaxCalls git_commit *)
(* calls arrive and every link stays up.                                   *)
(***************************************************************************)
LoopSession == session_id_of(GoodKey, ProjA)
LoopWorkspace == disk_path(get_session_path(GoodKey, ProjA))
LoopClone == [x \in {LoopWorkspace \o <<"/">> \o RemoteFile} |-> <<"r">>]

InitLoop ==
    /\ files = [x \in DOMAIN InitFiles \cup DOMAIN LoopClone \cup {LoopWorkspace \o <<"/", "f">>} |->
                    IF x \in DOMAIN InitFiles THEN InitFiles[x]
                    ELSE IF x \in DOMAIN LoopClone THEN LoopClone[x] ELSE <<"x">>]
    /\ dirs = InitDirs \cup {LoopWorkspace, LoopWorkspace \o <<"/">> \o DotGit}
    /\ repos = [x \in {LoopWorkspace} |-> Repository(LoopClone, 1, HttpsUrl)]
    /\ websocket_sessions =
           [x \in {LoopSession} |-> <<Conn("c1", "up"), Conn("c2", "up")>>]
    /\ ws_handlers = [c \in Sockets |->
                          IF c = "c3" THEN NoHandler
                          ELSE [pc |-> "receive", session_id |-> LoopSession, link |-> "up"]]
    /\ last = NoCall
    /\ nops = 0
    /\ pending = NoPath
    /\ git_log = {}
    /\ calls = <<>>
    /\ running = 0

LoopCommitOpen == calls = <<>> /\ CommitOpen(GoodKey, ProjA, Token)
LoopCommitCommit == \E k \in 1..Len(calls) : CommitCommit(k)
LoopCommitPush == \E k \in 1..Len(calls), push \in {"ok", "raise"} : CommitPush(k, push)
LoopAfterSend == \E k \in 1..Len(calls) : AfterSend(k)
LoopConnect == running = 0 /\ websocket_terminal("c3", GoodKey, ProjA)
LoopLinkFails == \E c \in Sockets, kind \in {"closed", "broken"} : LinkFails(c, kind)
LoopDisconnect == \E c \in Sockets : websocket_disconnect(c)

LoopNext ==
    \/ LoopCommitOpen
    \/ LoopCommitCommit
    \/ LoopCommitPush
    \/ LoopAfterSend
    \/ LoopConnect
    \/ LoopLinkFails
    \/ LoopDisconnect

SpecLoop == InitLoop /\ [][LoopNext]_vars

CommitsOpen == \E github_token \in Tokens : CommitOpen(GoodKey, ProjA, github_token)

CommitsNext ==
    \/ CommitsOpen
    \/ LoopCommitCommit
    \/ LoopCommitPush
    \/ LoopAfterSend
    \/ LoopConnect

SpecCommits == InitLoop /\ [][CommitsNext]_vars


\* every finished delivery pass of every git_commit coroutine
Passes(cs) == UNION {{cs[k].passes[i] : i \in 1..Len(cs[k].passes)} : k \in 1..Len(cs)}

\* the sockets still registered with their link up when the pass ended
AliveAtEnd(p) == {p.end_group[j].id : j \in {j \in 1..Len(p.end_group) : p.end_group[j].link = "up"}}

\* the pass delivered to every socket that was in the group when it started and is
\* still there, link up, when it ends
ReachedAllAlive(p) == \A c \in p.start_group : c \in AliveAtEnd(p) => c \in p.delivered

\* C12: a broadcast delivers the message to every connection that is in the group of
\* the session when the call starts, whatever other connections connect or disconnect
\* while the pass is suspended in a send.
C12_BroadcastReachesStartGroup ==
    \A p \in Passes(calls) : ~p.raised => ReachedAllAlive(p)

\* C13: whatever the kind of failure of a send, the failing connection is removed from
\* the group, the failure does not leave the broadcast, and the other connections of
\* the group receive the message.
C13_FailedSendIsImplicitDisconnect ==
    \A p \in Passes(calls) :
        p.failed # {} =>
            /\ ~p.raised
            /\ p.failed \cap Ids(p.end_group) = {}
            /\ ReachedAllAlive(p)

\* C14: the disconnect of a registered connection removes it and makes the group one
\* smaller, and a broadcast that starts after a disconnect reaches every connection
\* that remains and never a disconnected one.
C14_DisconnectRemovesFromLaterBroadcasts ==
    [][/\ \A c \in Sockets :
              (/\ ws_handlers[c].pc = "receive"
               /\ ws_handlers'[c].pc = "ended"
               /\ c \in Ids(GroupOf(websocket_sessions, LoopSession)))
              => (/\ c \notin Ids(GroupOf(websocket_sessions', LoopSession))
                  /\ Len(GroupOf(websocket_sessions', LoopSession)) =
                         Len(GroupOf(websocket_sessions, LoopSession)) - 1)
       /\ \A p \in Passes(calls') :
              p.ended_at_start # {} =>
                  /\ p.delivered \cap p.ended_at_start = {}
                  /\ ReachedAllAlive(p)]_vars

\* C18: a git_commit whose commit and push were made answers success, whatever
\* happens to the connections of the session while it notifies them.
C18_CommitOutcomeIndependentOfConnections ==
    \A k \in 1..Len(calls) :
        (calls[k].pc = "done" /\ calls[k].committed /\ calls[k].push = "ok")
        => calls[k].status = 200

\* a coroutine is between its staging and its push
InGitSteps(call) == call.pc \in {"added", "committed"}

Interleaved ==
    \E a, b \in 1..Len(calls) : a # b /\ InGitSteps(calls[a]) /\ InGitSteps(calls[b])

\* C17 as stated: the git steps of two calls of one session can interleave, that is,
\* while one git_commit call is between its staging and its push, the staging of
\* another call of the session can run.
C17_GitStepsInterleave ==
    \A a \in 1..Len(calls) :
        (InGitSteps(calls[a]) /\ Len(calls) < MaxCalls) => ENABLED CommitsOpen

\* C17: two git_commit calls of one session can be in flight together, but no git
\* step of one runs between the staging and the push of the other: the handler has
\* no suspension point there, and the event loop runs them as one block.
C17_GitStepsNeverInterleave == ~Interleaved

C17_Witness ==
    \E a, b \in 1..Len(calls) :
        /\ a # b
        /\ calls[a].pc = "send"
        /\ calls[a].committed
        /\ InGitSteps(calls[b])

(***************************************************************************)
(* Round trip of a file through write and read                             *)
(***************************************************************************)
WriteOps == {"save_file", "main_save_file"}

\* the step reads, with the same session and path, the file the previous call wrote
ReadsBack ==
    /\ last.op \in WriteOps
    /\ last.status = 200
    /\ nops' = nops + 1
    /\ last'.op \in ReadOps
    /\ last'.secret_key = last.secret_key
    /\ last'.project_name = last.project_name
    /\ last'.arg = last.arg

\* C15: a read that follows a successful write of the same path in the same session
\* succeeds and returns exactly the content that was written, also when the parent
\* directories of the path did not exist before the write.
C15_ReadReturnsWhatWasWritten ==
    [][ReadsBack => (last'.status = 200 /\ last'.content = last.content)]_vars

(***************************************************************************)
(* Scratch file of an upload                                               *)
(***************************************************************************)
\* C16: when an upload call has returned, on whatever exit path (success, malformed
\* archive, failure while writing the scratch file or while extracting), the scratch
\* file that held the uploaded archive does not exist.
C16_ScratchFileRemoved ==
    last.op \in UploadOps => LastScratch \notin DOMAIN files

(***************************************************************************)
(* main_simple.py get_file_tree, one system call at a time.  The handler   *)
(* has no await: no other handler of the server runs before it returns.    *)
(* The disk is shared with the other processes of the machine, which may   *)
(* remove a file or a directory between two system calls of the walk.      *)
(* A frame is one activation of build_tree: its path and the items of its  *)
(* listing still to be visited (os.listdir gives them in no set order).    *)
(***************************************************************************)
Frame(path, items) == [path |-> path, items |-> items]
Node(path, type) == [path |-> path, type |-> type]

\* os.listdir(path): the entries of the directory, as full paths
listdir(path) ==
    {q \in DOMAIN files \cup dirs : q # disk_path(path) /\ parent_of(q) = disk_path(path)}

\* frames whose for loop has no item left return to their caller
RECURSIVE unwind(_)
unwind(stack) ==
    IF stack = <<>> THEN <<>>
    ELSE IF stack[Len(stack)].items = {} THEN unwind(SubSeq(stack, 1, Len(stack) - 1))
    ELSE stack

NewTreeCall(secret_key, project_name, denied) ==
    [op |-> "get_file_tree", secret_key |-> secret_key, project_name |-> project_name,
     pc |-> "listdir", denied |-> denied, entered |-> FALSE,
     enter |-> get_session_path(secret_key, project_name), stack |-> <<>>,
     tree |-> {}, status |-> 0, detail |-> <<>>]

tree_answer(call, status, detail) ==
    [call EXCEPT !.pc = "done", !.status = status, !.detail = detail, !.stack = <<>>]

\* the for loop goes on with the next item, or the outermost build_tree returns
tree_continue(call, stack, tree) ==
    IF unwind(stack) = <<>>
    THEN [tree_answer(call, 200, <<>>) EXCEPT !.tree = tree]
    ELSE [call EXCEPT !.pc = "isdir", !.stack = unwind(stack), !.tree = tree]

\* the handler up to the first build_tree call
tree_open(call) ==
    IF ~valid_secret_key(call.secret_key)
    THEN tree_answer(call, 400, <<"Invalid secret key">>)
    ELSE IF ~path_exists(call.enter)
    THEN tree_answer(call, 404, <<"Project session not found">>)
    ELSE [call EXCEPT !.entered = TRUE]

\* build_tree(path) up to its for loop: only PermissionError is caught
tree_listdir(call) ==
    IF call.enter \in DOMAIN files
    THEN tree_answer(call, 500, <<"NotADirectoryError">>)
    ELSE IF call.enter \notin dirs
    THEN tree_answer(call, 500, <<"FileNotFoundError">>)
    ELSE IF call.enter \in call.denied
    THEN tree_continue(call, call.stack, call.tree \cup {Node(call.enter, "directory")})
    ELSE tree_continue(call, Append(call.stack, Frame(call.enter, listdir(call.enter))),
                       call.tree \cup {Node(call.enter, "directory")})

\* one turn of the for loop on item_path: os.path.isdir, then build_tree or a file node
tree_isdir(call, item_path) ==
    LET top == call.stack[Len(call.stack)]
        rest == [call.stack EXCEPT ![Len(call.stack)] =
                     Frame(top.path, top.items \ {item_path})]
    IN  IF path_isdir(item_path)
        THEN [call EXCEPT !.pc = "listdir", !.enter = item_path, !.stack = rest]
        ELSE tree_continue(call, rest, call.tree \cup {Node(item_path, "file")})

TreeOutcome(call) ==
    [Outcome("get_file_tree", call.secret_key, call.project_name, <<>>,
             call.status, call.detail, NoContent, {})
        EXCEPT !.tree = call.tree]

TreeStep(k, new_calls) ==
    /\ calls' = new_calls
    /\ running' = IF new_calls[k].pc = "done" THEN 0 ELSE k
    /\ last' = IF new_calls[k].pc = "done" THEN TreeOutcome(new_calls[k]) ELSE last
    /\ nops' = IF new_calls[k].pc = "done" THEN nops + 1 ELSE nops
    /\ UNCHANGED <<files, dirs, repos, websocket_sessions, pending, git_log, ws_handlers>>

\* @app.get('/api/files'): denied is the set of directories the server may not list
TreeOpen(secret_key, project_name, denied) ==
    /\ running = 0
    /\ Len(calls) < MaxCalls
    /\ TreeStep(Len(calls) + 1,
                Append(calls, tree_open(NewTreeCall(secret_key, project_name, denied))))

TreeListdir(k) ==
    /\ running = k
    /\ calls[k].op = "get_file_tree"
    /\ calls[k].pc = "listdir"
    /\ TreeStep(k, [calls EXCEPT ![k] = tree_listdir(calls[k])])

TreeIsdir(k) ==
    /\ running = k
    /\ calls[k].op = "get_file_tree"
    /\ calls[k].pc = "isdir"
    /\ \E item_path \in calls[k].stack[Len(calls[k].stack)].items :
           TreeStep(k, [calls EXCEPT ![k] = tree_isdir(calls[k], item_path)])

\* another process of the machine removes a file, or a directory with what it holds
removed_elsewhere(q) ==
    /\ q \in DOMAIN files \cup dirs
    /\ files' = [x \in {y \in DOMAIN files : ~Inside(q, y)} |-> files[x]]
    /\ dirs' = {y \in dirs : ~Inside(q, y)}
    /\ UNCHANGED <<repos, websocket_sessions, last, nops, pending, git_log, loop>>

(***************************************************************************)
(* Tree runs: up to MaxCalls get_file_tree calls on a workspace that holds *)
(* a file, a directory with a file and an empty directory, while another   *)
(* process removes entries of the workspace.                               *)
(***************************************************************************)
TreeRoot == get_session_path(GoodKey, ProjA)
TreeF == disk_path(path_join(TreeRoot, PathF))
TreeD == disk_path(path_join(TreeRoot, PathD))
TreeDF == disk_path(path_join(TreeRoot, PathDF))
TreeE == disk_path(path_join(TreeRoot, <<"e">>))

InitTree ==
    /\ files = [x \in DOMAIN InitFiles \cup {TreeF, TreeDF} |->
                   IF x \in DOMAIN InitFiles THEN InitFiles[x] ELSE <<"x">>]
    /\ dirs = InitDirs \cup {disk_path(TreeRoot), TreeD, TreeE}
    /\ repos = EmptyMap
    /\ websocket_sessions = EmptyMap
    /\ last = NoCall
    /\ nops = 0
    /\ pending = NoPath
    /\ git_log = {}
    /\ calls = <<>>
    /\ running = 0
    /\ ws_handlers = [c \in Sockets |-> NoHandler]

WalkOpen ==
    \E secret_key \in {GoodKey, <<"1">>}, project_name \in Projects, denied \in {{}, {TreeD}} :
        TreeOpen(secret_key, project_name, denied)
WalkListdir == \E k \in 1..Len(calls) : TreeListdir(k)
WalkIsdir == \E k \in 1..Len(calls) : TreeIsdir(k)
WalkRemovedElsewhere == \E q \in {TreeF, TreeD, TreeDF, TreeE} : removed_elsewhere(q)

TreeNext ==
    \/ WalkOpen
    \/ WalkListdir
    \/ WalkIsdir
    \/ WalkRemovedElsewhere

SpecTree == InitTree /\ [][TreeNext]_vars

\* C19: a get_file_tree call that found its workspace completes with a tree and no
\* error, also when a directory or a file listed by the walk is removed before the
\* walk visits it, and when a directory may not be listed.
C19_WalkToleratesVanishingEntries ==
    \A k \in 1..Len(calls) :
        (calls[k].op = "get_file_tree" /\ calls[k].pc = "done" /\ calls[k].entered)
            => calls[k].status = 200

(***************************************************************************)
(* The file handlers, one await at a time.  save_file and get_file_content *)
(* (and save_file and read_file of main.py) open, write or read, and close *)
(* their file through aiofiles: the handler is suspended at               *)
(* 'async with aiofiles.open(...)' and at 'await f.write / f.read', and    *)
(* other handlers run meanwhile.  open(path, 'w') creates or truncates the *)
(* file; the text given to f.write reaches the disk when the buffer is     *)
(* flushed, at the latest when the file is closed.                         *)
(***************************************************************************)
NewFileCall(op, secret_key, project_name, file_path, content) ==
    [op |-> op, secret_key |-> secret_key, project_name |-> project_name,
     file_path |-> file_path, content |-> content, pc |-> "open",
     full_path |-> path_join(get_session_path(secret_key, project_name),
                             sanitize_path(file_path).value),
     old |-> NoContent, result |-> NoContent, status |-> 0, detail |-> <<>>,
     during |-> {k \in 1..Len(calls) : calls[k].pc # "done"}]

file_answer(call, status, detail) ==
    [call EXCEPT !.pc = "done", !.status = status, !.detail = detail]

\* an exception raised under the try block of a main_simple.py handler is answered
\* with its message behind the handler's words; main.py has no try block
file_raises(call, exception) ==
    file_answer(call, 500,
                IF call.op = "save_file" THEN <<"Error saving file: ", exception>>
                ELSE IF call.op = "get_file_content" THEN <<"Error reading file: ", exception>>
                ELSE <<exception>>)

\* the checks of a handler before its file is opened
file_checks(call) ==
    IF call.op \in {"save_file", "get_file_content"} /\ ~valid_secret_key(call.secret_key)
    THEN file_answer(call, 400, <<"Invalid secret key">>)
    ELSE IF ~sanitize_path(call.file_path).ok
    THEN file_answer(call, 500,
                     IF call.op \in {"save_file", "get_file_content"}
                     THEN <<"ValueError: Invalid path: Directory traversal detected">>
                     ELSE <<"ValueError: Directory traversal detected">>)
    ELSE IF /\ call.op \in {"save_file", "get_file_content"}
            /\ ~StartsWith(call.full_path, get_session_path(call.secret_key, call.project_name))
    THEN file_answer(call, 400, <<"Invalid file path">>)
    ELSE IF call.op = "get_file_content" /\ ~path_exists(call.full_path)
    THEN file_answer(call, 404, <<"File not found">>)
    ELSE IF call.op = "get_file_content" /\ path_isdir(call.full_path)
    THEN file_answer(call, 400, <<"Path is a directory, not a file">>)
    ELSE [call EXCEPT !.old = IF disk_path(call.full_path) \in DOMAIN files
                              THEN files[disk_path(call.full_path)] ELSE NoContent]

FileOutcome(call) ==
    Outcome(call.op, call.secret_key, call.project_name, call.file_path,
            call.status, call.detail,
            IF call.op \in {"get_file_content", "read_file"} THEN call.result
            ELSE call.content,
            {})

FileStep(k, new_calls, fs, ds) ==
    /\ calls' = new_calls
    /\ files' = fs
    /\ dirs' = ds
    /\ last' = IF new_calls[k].pc = "done" THEN FileOutcome(new_calls[k]) ELSE last
    /\ nops' = IF new_calls[k].pc = "done" THEN nops + 1 ELSE nops
    /\ UNCHANGED <<repos, websocket_sessions, pending, git_log, running, ws_handlers>>

\* a write handler up to 'async with aiofiles.open(full_path, 'w')'
WriteBegin(op, secret_key, project_name, file_path, content) ==
    /\ running = 0
    /\ Len(calls) < MaxCalls
    /\ \E call \in {file_checks(NewFileCall(op, secret_key, project_name, file_path, content))} :
       \E md \in {makedirs(dirname(call.full_path))} :
           IF call.pc = "done"
           THEN FileStep(Len(calls) + 1, Append(calls, call), files, dirs)
           ELSE IF ~md.ok
           THEN FileStep(Len(calls) + 1,
                         Append(calls, file_answer(call, 500, <<"FileExistsError">>)),
                         files, dirs)
           ELSE FileStep(Len(calls) + 1, Append(calls, call), files, md.dirs)

\* a read handler up to 'async with aiofiles.open(full_path, 'r')'
ReadBegin(op, secret_key, project_name, file_path) ==
    /\ running = 0
    /\ Len(calls) < MaxCalls
    /\ FileStep(Len(calls) + 1,
                Append(calls, file_checks(NewFileCall(op, secret_key, project_name,
                                                      file_path, NoContent))),
                files, dirs)

\* aiofiles.open(full_path, 'w') has run: the file is there and is empty
WriteOpen(k) ==
    /\ running = 0
    /\ calls[k].op \in {"save_file", "main_save_file"}
    /\ calls[k].pc = "open"
    /\ \E wr \in {write_file(files, dirs, calls[k].full_path, <<>>)} :
           IF wr.ok
           THEN FileStep(k, [calls EXCEPT ![k].pc = "write"], wr.files, dirs)
           ELSE FileStep(k, [calls EXCEPT ![k] = file_raises(calls[k], "IsADirectoryError")],
                         files, dirs)

\* f.write(content) and the close of the file: the text is on the disk, or the disk
\* did not take it and the exception is answered with 500
WriteClose(k, disk) ==
    /\ running = 0
    /\ calls[k].op \in {"save_file", "main_save_file"}
    /\ calls[k].pc = "write"
    /\ IF disk = "ok"
       THEN FileStep(k, [calls EXCEPT ![k] =
                             file_answer(calls[k], 200,
                                         IF calls[k].op = "save_file"
                                         THEN <<"File saved successfully">> ELSE <<>>)],
                     write_file(files, dirs, calls[k].full_path,
                                text_write(calls[k].content)).files,
                     dirs)
       ELSE FileStep(k, [calls EXCEPT ![k] =
                             file_raises(calls[k], "OSError: No space left on device")],
                     files, dirs)

\* aiofiles.open(full_path, 'r') has run
ReadOpen(k) ==
    /\ running = 0
    /\ calls[k].op \in {"get_file_content", "read_file"}
    /\ calls[k].pc = "open"
    /\ IF disk_path(calls[k].full_path) \in dirs
       THEN FileStep(k, [calls EXCEPT ![k] = file_raises(calls[k], "IsADirectoryError")],
                     files, dirs)
       ELSE IF disk_path(calls[k].full_path) \notin DOMAIN files
       THEN FileStep(k, [calls EXCEPT ![k] = file_raises(calls[k], "FileNotFoundError")],
                     files, dirs)
       ELSE FileStep(k, [calls EXCEPT ![k].pc = "read"], files, dirs)

\* f.read(): what the file holds now
ReadClose(k) ==
    /\ running = 0
    /\ calls[k].op \in {"get_file_content", "read_file"}
    /\ calls[k].pc = "read"
    /\ FileStep(k, [calls EXCEPT ![k] =
                        [file_answer(calls[k], 200, <<>>) EXCEPT
                            !.result = universal_newlines(files[disk_path(calls[k].full_path)])]],
                files, dirs)

(***************************************************************************)
(* Overwrite runs: up to MaxCalls writes and reads, by both programs, of   *)
(* one file that exists and of one in a directory that does not.           *)
(***************************************************************************)
InitOverwrite ==
    /\ files = [x \in DOMAIN InitFiles \cup {TreeF} |->
                   IF x \in DOMAIN InitFiles THEN InitFiles[x] ELSE <<"x">>]
    /\ dirs = InitDirs \cup {disk_path(TreeRoot)}
    /\ repos = EmptyMap
    /\ websocket_sessions = EmptyMap
    /\ last = NoCall
    /\ nops = 0
    /\ pending = NoPath
    /\ git_log = {}
    /\ calls = <<>>
    /\ running = 0
    /\ ws_handlers = [c \in Sockets |-> NoHandler]

OverwriteWriteBegin ==
    \E op \in {"save_file", "main_save_file"}, f \in {PathF, PathDF, PathUpF} :
        WriteBegin(op, GoodKey, ProjA, f, <<"y">>)
OverwriteReadBegin ==
    \E op \in {"get_file_content", "read_file"}, f \in {PathF, PathDF} :
        ReadBegin(op, GoodKey, ProjA, f)
OverwriteWriteOpen == \E k \in 1..Len(calls) : WriteOpen(k)
OverwriteWriteClose == \E k \in 1..Len(calls), disk \in DiskOutcomes : WriteClose(k, disk)
OverwriteReadOpen == \E k \in 1..Len(calls) : ReadOpen(k)
OverwriteReadClose == \E k \in 1..Len(calls) : ReadClose(k)

OverwriteNext ==
    \/ OverwriteWriteBegin
    \/ OverwriteReadBegin
    \/ OverwriteWriteOpen
    \/ OverwriteWriteClose
    \/ OverwriteReadOpen
    \/ OverwriteReadClose

SpecOverwrite == InitOverwrite /\ [][OverwriteNext]_vars

IsWrite(call) == call.op \in {"save_file", "main_save_file"}
IsRead(call) == call.op \in {"get_file_content", "read_file"}
SameFile(a, b) == disk_path(a.full_path) = disk_path(b.full_path)

\* two calls were in flight together
Overlap(a, b) == a \in calls[b].during \/ b \in calls[a].during

\* w is the only write of its file in the run, and the file existed when it began
OnlyWriteOfExisting(w) ==
    /\ IsWrite(calls[w])
    /\ calls[w].old # NoContent
    /\ \A v \in 1..Len(calls) :
           (v # w /\ IsWrite(calls[v])) => ~SameFile(calls[v], calls[w])

\* C20: a write overwrites atomically.  A read of an existing file that runs together
\* with a write of that file returns the complete old content or the complete new
\* content, and a write that fails leaves the old content of the file in place.
C20_WriteIsAtomic ==
    \A w \in 1..Len(calls) :
        OnlyWriteOfExisting(w)
            => /\ \A r \in 1..Len(calls) :
                      (/\ IsRead(calls[r])
                       /\ SameFile(calls[r], calls[w])
                       /\ Overlap(r, w)
                       /\ calls[r].pc = "done"
                       /\ calls[r].status = 200)
                          => calls[r].result \in
                                 {universal_newlines(calls[w].old),
                                  universal_newlines(text_write(calls[w].content))}
               /\ (calls[w].pc = "done" /\ calls[w].status \notin {200, 400})
                      => files[disk_path(calls[w].full_path)] = calls[w].old

(***************************************************************************)
(* Deleting                                                                *)
(***************************************************************************)
\* the path of a call passed the checks of the handler: valid key, no traversal
\* found, the joined path begins with the workspace path
PassedChecks(call) ==
    /\ valid_secret_key(call.secret_key)
    /\ sanitize_path(call.arg).ok
    /\ StartsWith(path_join(get_session_path(call.secret_key, call.project_name),
                            sanitize_path(call.arg).value),
                  get_session_path(call.secret_key, call.project_name))

\* the file or directory the path of a call resolves to
Target(call) ==
    disk_path(path_join(get_session_path(call.secret_key, call.project_name),
                        sanitize_path(call.arg).value))

IsADirectoryAnswer == <<"Error deleting file: ", "IsADirectoryError">>

\* C21: delete_file is file-only.  On a path that resolves to a directory the call
\* fails saying that it is a directory, on a path that resolves to nothing it fails
\* with 'File not found', and in both cases no file and no directory is removed or
\* changed.
C21_DeleteIsFileOnly ==
    [][(last'.op = "delete_file" /\ nops' = nops + 1 /\ PassedChecks(last'))
          => /\ Target(last') \in dirs
                    => /\ last'.status = 500
                       /\ last'.detail = IsADirectoryAnswer
                       /\ files' = files
                       /\ dirs' = dirs
             /\ Target(last') \notin dirs \cup DOMAIN files
                    => /\ last'.status = 404
                       /\ last'.detail = <<"File not found">>
                       /\ files' = files
                       /\ dirs' = dirs]_vars

\* delete_file was called on a directory that holds a file, and the file is still there
C21_Witness ==
    /\ last.op = "delete_file"
    /\ PassedChecks(last)
    /\ Target(last) \in dirs
    /\ \E q \in DOMAIN files : q # Target(last) /\ Inside(Target(last), q)
    /\ last.status = 500

(***************************************************************************)
(* Origin runs: a workspace cloned from an https repository and edited     *)
(* since; up to MaxGitOps edits and git_commit calls of main_simple.py,    *)
(* with and without a token.                                               *)
(***************************************************************************)
OriginNext ==
    \/ EditFile
    \/ CallGitCommit

SpecOrigin == InitLoop /\ [][OriginNext]_vars

\* a git_commit call that had a token and an origin: it went through the rewrite of
\* the URL of origin and on to the push
Rewrote(entry) == entry.push \in {"ok", "failed"}

\* C22: pushing with a token leaves the stored URL of origin stable: a git_commit call
\* with a token that comes after an earlier such call on the workspace leaves the URL
\* as that earlier call left it, without a second user part put before the first.
C22_OriginUrlStableAcrossPushes ==
    [][(/\ last'.op = "git_commit"
        /\ nops' = nops + 1
        /\ Rewrote(last')
        /\ \E entry \in git_log : Rewrote(entry))
          => repos'[LoopWorkspace].origin = repos[LoopWorkspace].origin]_vars

(***************************************************************************)
(* The upload handlers, one await at a time.  Both handlers are suspended  *)
(* at 'async with aiofiles.open(scratch, 'wb')', at the write and at the   *)
(* close of the scratch file; from there to the answer (ZipFile,           *)
(* extractall, removal of the scratch file) there is no await.  The        *)
(* scratch file holds bytes: an archive is written as its bytes, and       *)
(* ZipFile reads back whatever bytes the file holds then.                  *)
(***************************************************************************)
RECURSIVE EntriesBytes(_, _)
EntriesBytes(entries, i) ==
    IF i > Len(entries) THEN <<>>
    ELSE <<"[">> \o entries[i].name \o <<"=">> \o entries[i].content
             \o <<IF entries[i].crc_ok THEN "+" ELSE "-">>
             \o EntriesBytes(entries, i + 1)

\* the bytes of an uploaded archive: zip_file.read()
zip_bytes(archive) ==
    IF archive.valid THEN <<"PK">> \o EntriesBytes(archive.entries, 1) ELSE <<"junk">>

\* zipfile.ZipFile(path) on a file holding data: the archive with these bytes, and
\* no zip file at all when the bytes are those of no archive
read_zip(data, archives) ==
    IF \E a \in archives : zip_bytes(a) = data
    THEN CHOOSE a \in archives : zip_bytes(a) = data
    ELSE Archive(FALSE, <<>>)

\* a write of data at the start of a file that holds old
overlay(old, data) ==
    IF Len(data) >= Len(old) THEN data ELSE data \o SubSeq(old, Len(data) + 1, Len(old))

Unread == <<"<unread>">>
Missing == <<"<missing>">>

UploadArchives == {ArchiveOk, ArchiveBadCrc}

NewUploadCall(op, secret_key, project_name, zip_file) ==
    [op |-> op, secret_key |-> secret_key, project_name |-> project_name,
     zip_file |-> zip_file, pc |-> "open",
     session_path |-> get_session_path(secret_key, project_name),
     temp_path |-> IF op = "upload_zip" THEN temp_file_path(secret_key, zip_file.filename)
                   ELSE temp_zip(zip_file.filename),
     found |-> Unread, status |-> 0, detail |-> <<>>]

upload_answer(call, status, detail) ==
    [call EXCEPT !.pc = "done", !.status = status, !.detail = detail]

UploadOutcome(call) ==
    Outcome(call.op, call.secret_key, call.project_name, call.zip_file,
            call.status, call.detail, NoContent, {})

UploadStep(k, new_calls, fs, ds) ==
    /\ calls' = new_calls
    /\ files' = fs
    /\ dirs' = ds
    /\ last' = IF new_calls[k].pc = "done" THEN UploadOutcome(new_calls[k]) ELSE last
    /\ nops' = IF new_calls[k].pc = "done" THEN nops + 1 ELSE nops
    /\ UNCHANGED <<repos, websocket_sessions, pending, git_log, running, ws_handlers>>

\* the handler up to 'async with aiofiles.open(scratch, 'wb')'
UploadBegin(op, secret_key, project_name, zip_file) ==
    /\ running = 0
    /\ Len(calls) < MaxCalls
    /\ \E call \in {NewUploadCall(op, secret_key, project_name, zip_file)} :
       \E md \in {makedirs(call.session_path)} :
           IF op = "upload_zip" /\ ~valid_secret_key(secret_key)
           THEN UploadStep(Len(calls) + 1,
                           Append(calls, upload_answer(call, 400, <<"Invalid secret key">>)),
                           files, dirs)
           ELSE IF ~md.ok
           THEN UploadStep(Len(calls) + 1,
                           Append(calls, upload_answer(call, 500, <<"FileExistsError">>)),
                           files, dirs)
           ELSE UploadStep(Len(calls) + 1, Append(calls, call), files, md.dirs)

\* aiofiles.open(scratch, 'wb') has run: the scratch file is there and is empty
UploadOpen(k) ==
    /\ running = 0
    /\ calls[k].op \in {"upload_zip", "main_upload_zip"}
    /\ calls[k].pc = "open"
    /\ \E wr \in {write_file(files, dirs, calls[k].temp_path, <<>>)} :
           IF wr.ok
           THEN UploadStep(k, [calls EXCEPT ![k].pc = "write"], wr.files, dirs)
           ELSE UploadStep(k, [calls EXCEPT ![k] =
                                   upload_answer(calls[k], 500, <<"IsADirectoryError">>)],
                           files, dirs)

\* temp_file.write(content) and the close: the bytes of the upload are put at the
\* start of the file the call opened, which is the file of that name if it is
\* still there
UploadWrite(k) ==
    /\ running = 0
    /\ calls[k].op \in {"upload_zip", "main_upload_zip"}
    /\ calls[k].pc = "write"
    /\ IF disk_path(calls[k].temp_path) \in DOMAIN files
       THEN UploadStep(k, [calls EXCEPT ![k].pc = "extract"],
                       write_file(files, dirs, calls[k].temp_path,
                                  overlay(files[disk_path(calls[k].temp_path)],
                                          zip_bytes(calls[k].zip_file.archive))).files,
                       dirs)
       ELSE UploadStep(k, [calls EXCEPT ![k].pc = "extract"], files, dirs)

\* from ZipFile(scratch) to the answer: extractall and the removal of the scratch file
upload_extract(call, archives) ==
    IF disk_path(call.temp_path) \notin DOMAIN files
    THEN [files |-> files, dirs |-> dirs,
          call |-> [upload_answer(call, 500,
                                  IF call.op = "upload_zip"
                                  THEN <<"Failed to extract ZIP file: ", "FileNotFoundError">>
                                  ELSE <<"Invalid ZIP">>)
                       EXCEPT !.found = Missing]]
    ELSE Bind(extractall(files, dirs, call.session_path,
                         read_zip(files[disk_path(call.temp_path)], archives)),
              LAMBDA ex :
                  [files |-> remove_file(ex.files, ex.dirs, call.temp_path).files,
                   dirs |-> ex.dirs,
                   call |-> [upload_answer(call, IF ex.ok THEN 200 ELSE 500,
                                           IF ex.ok
                                           THEN IF call.op = "upload_zip"
                                                THEN <<"ZIP file uploaded and extracted successfully">>
                                                ELSE <<>>
                                           ELSE IF call.op = "upload_zip"
                                                THEN <<"Failed to extract ZIP file: ">>
                                                ELSE <<"Invalid ZIP">>)
                                EXCEPT !.found = files[disk_path(call.temp_path)]]])

UploadExtract(k) ==
    /\ running = 0
    /\ calls[k].op \in {"upload_zip", "main_upload_zip"}
    /\ calls[k].pc = "extract"
    /\ \E r \in {upload_extract(calls[k], UploadArchives)} :
           UploadStep(k, [calls EXCEPT ![k] = r.call], r.files, r.dirs)

(***************************************************************************)
(* Upload runs: up to MaxCalls uploads in flight together, of two archives *)
(* under one upload filename, by two sessions of one key, through both     *)
(* programs.                                                               *)
(***************************************************************************)
UploadsBegin ==
    \E op \in {"upload_zip", "main_upload_zip"}, project_name \in Projects,
       archive \in UploadArchives :
        UploadBegin(op, GoodKey, project_name, [filename |-> UploadName, archive |-> archive])
UploadsOpen == \E k \in 1..Len(calls) : UploadOpen(k)
UploadsWrite == \E k \in 1..Len(calls) : UploadWrite(k)
UploadsExtract == \E k \in 1..Len(calls) : UploadExtract(k)

UploadsNext ==
    \/ UploadsBegin
    \/ UploadsOpen
    \/ UploadsWrite
    \/ UploadsExtract

SpecUploads == Init /\ [][UploadsNext]_vars

\* C23: uploads in flight together under one upload filename do not interfere through
\* the scratch file: what a call finds in its scratch file when it opens it as a zip
\* file is the bytes the call received, neither the bytes of another call nor a file
\* that the cleanup of another call has removed.
C23_UploadsKeepTheirScratchFile ==
    \A k \in 1..Len(calls) :
        (calls[k].pc = "done" /\ calls[k].found # Unread)
            => calls[k].found = zip_bytes(calls[k].zip_file.archive)

====
